---------------------------- MODULE Spec2Model ----------------------------
(***************************************************************************)
(* Model of spinsys/hamiltonians/triangular_lattice_model.py: the          *)
(* bit-state codec, the Bloch basis builder, the matrix-element engine     *)
(* and the assembly layer, together with the module-level caches           *)
(* (functools.lru_cache, utils.cache.matcache) that carry state from one   *)
(* call to the next.                                                       *)
(***************************************************************************)
EXTENDS Integers, Sequences, FiniteSets, TLC

(***************************************************************************)
(* Bounds of the model.                                                    *)
(***************************************************************************)
\* largest number of lattice sites Nx*Ny of a lattice the client asks for
MaxSites == 4

Lattices == {L \in (1..MaxSites) \X (1..MaxSites) : L[1] * L[2] <= MaxSites}

(***************************************************************************)
(* Small arithmetic helpers.                                               *)
(***************************************************************************)
\* Throughout, CHOOSE result \in {e : x \in {v}} : TRUE is e with v for x,
\* and v is evaluated once however often e refers to x.

RECURSIVE SumFn(_)
SumFn(f) ==
    IF DOMAIN f = {} THEN 0
    ELSE LET x == CHOOSE x \in DOMAIN f : TRUE
         IN  f[x] + SumFn([y \in DOMAIN f \ {x} |-> f[y]])

RECURSIVE GCD(_, _)
GCD(a, b) == IF b = 0 THEN a ELSE GCD(b, a % b)

LCM(a, b) == (a * b) \div GCD(a, b)

Abs(a) == IF a < 0 THEN -a ELSE a

\* the largest m with m * m dividing n (n > 0)
SquarePart(n) ==
    LET roots == {m \in 1..n : m * m <= n /\ n % (m * m) = 0}
    IN  CHOOSE m \in roots : \A k \in roots : k <= m

(***************************************************************************)
(* Exact complex numbers.  The program computes with complex floats; all   *)
(* the values it forms are sums r * sqrt(q) * w^e with r rational, q a     *)
(* squarefree positive integer and w = exp(2*pi*i/M) for one M fixed by    *)
(* the lattice.  A cyclotomic integer is a function c over 0..M-1 standing *)
(* for the sum of c[e] * w^e.                                              *)
(***************************************************************************)
\* the order of the roots of unity of a lattice: the phases of _phase_arr
\* (Nx-th and Ny-th roots), _gamma (third roots) and 1j (a fourth root)
RootOrder(Nx, Ny) == LCM(12, LCM(Nx, Ny))

CZero(M) == [e \in 0..(M - 1) |-> 0]
CMono(M, r) == [e \in 0..(M - 1) |-> IF e = r % M THEN 1 ELSE 0]
CAdd(a, b) == [e \in DOMAIN a |-> a[e] + b[e]]
CScale(a, k) == [e \in DOMAIN a |-> k * a[e]]
CRot(a, r) == LET M == Cardinality(DOMAIN a) IN [e \in DOMAIN a |-> a[(e - r) % M]]
CConj(a) == LET M == Cardinality(DOMAIN a) IN [e \in DOMAIN a |-> a[(M - e) % M]]
CMul(a, b) ==
    LET M == Cardinality(DOMAIN a)
        nz == {x \in DOMAIN a : a[x] # 0}
    IN  [e \in DOMAIN a |-> SumFn([x \in nz |-> a[x] * b[(e - x) % M]])]

IsPrime(p) == p > 1 /\ \A d \in 2..(p - 1) : p % d # 0
PrimeFactors(M) == {p \in 2..M : M % p = 0 /\ IsPrime(p)}
\* the largest power of p dividing M
RECURSIVE PrimePower(_, _)
PrimePower(M, p) == IF M % p = 0 THEN p * PrimePower(M \div p, p) ELSE 1

\* For a prime p dividing M the p exponents e, e + M/p, ..., e + (p-1)M/p
\* carry roots that sum to zero.  TopDigit tells the member of such a class
\* that is eliminated, ClassTop finds it.
TopDigit(e, M, p) ==
    LET pp == PrimePower(M, p) IN ((e % pp) \div (pp \div p)) = p - 1
ClassTop(e, M, p) ==
    CHOOSE f \in {(e + t * (M \div p)) % M : t \in 0..(p - 1)} : TopDigit(f, M, p)
\* the root orders in use, and for each its primes and its classes
RootOrders == {RootOrder(L[1], L[2]) : L \in Lattices}
ClassTops ==
    [M \in RootOrders |-> [p \in PrimeFactors(M) |-> [e \in 0..(M - 1) |-> ClassTop(e, M, p)]]]
CReduce(a, p) ==
    LET top == ClassTops[Cardinality(DOMAIN a)][p]
    IN  [e \in DOMAIN a |-> IF top[e] = e THEN 0 ELSE a[e] - a[top[e]]]
RECURSIVE CReduceAll(_, _)
CReduceAll(a, ps) ==
    IF ps = {} THEN a
    ELSE LET p == CHOOSE p \in ps : TRUE
         IN  CReduceAll(CReduce(a, p), ps \ {p})
\* the normal form: two cyclotomic integers are the same complex number
\* exactly when their normal forms are the same function
CNormal(a) == CReduceAll(a, DOMAIN ClassTops[Cardinality(DOMAIN a)])
CIsZero(a) == \E n \in {CNormal(a)} : \A e \in DOMAIN n : n[e] = 0
\* a rational integer, and its value
CIsInt(a) == \E n \in {CNormal(a)} : \A e \in DOMAIN n : e # 0 => n[e] = 0
CInt(a) == CNormal(a)[0]

CSumFn(M, F) == [e \in 0..(M - 1) |-> SumFn([x \in DOMAIN F |-> F[x][e]])]

RECURSIVE GCDSet(_)
GCDSet(S) == IF S = {} THEN 0
             ELSE LET x == CHOOSE x \in S : TRUE IN GCD(Abs(x), GCDSet(S \ {x}))

(***************************************************************************)
(* A number of the program: [M, den, parts] stands for                     *)
(*     (1/den) * sum over q in DOMAIN parts of sqrt(q) * parts[q]          *)
(* q squarefree and positive.  The square roots come from np.linalg.norm   *)
(* and np.abs only.  A norm below the tolerance 1e-8 is float noise around *)
(* 1e-16 whose value the model does not know: it is kept as 0, a product   *)
(* with it is filed under the key 0 (noise) and a quotient by it under the *)
(* key -1 (overflow).                                                      *)
(***************************************************************************)
NCanon(u0) ==
    CHOOSE result \in {
        LET nf == [q \in DOMAIN u.parts |-> v[q]]
            keep == {q \in DOMAIN nf : \E e \in DOMAIN nf[q] : nf[q][e] # 0}
            g == GCDSet({u.den} \cup {nf[q][e] : q \in keep, e \in 0..(u.M - 1)})
        IN  [M |-> u.M, den |-> u.den \div g,
             parts |-> [q \in keep |->
                          [e \in {x \in 0..(u.M - 1) : nf[q][x] # 0} |-> nf[q][e] \div g]]]
        : u \in {u0}, v \in {[q \in DOMAIN u0.parts |-> CNormal(u0.parts[q])]}} : TRUE

\* the cyclotomic integer filed under sqrt(q) in u (parts are stored sparsely)
NPart(u, q) ==
    [e \in 0..(u.M - 1) |->
        IF q \in DOMAIN u.parts /\ e \in DOMAIN u.parts[q] THEN u.parts[q][e] ELSE 0]
NZero(M) == [M |-> M, den |-> 1, parts |-> <<>>]
NFromC(c) == NCanon([M |-> Cardinality(DOMAIN c), den |-> 1, parts |-> [q \in {1} |-> c]])
\* the rational p/q
NRat(M, p, q) == NCanon([M |-> M, den |-> q, parts |-> [k \in {1} |-> CScale(CMono(M, 0), p)]])
NAdd(u, v) ==
    NCanon([M |-> u.M, den |-> u.den * v.den,
            parts |-> [q \in DOMAIN u.parts \cup DOMAIN v.parts |->
                          CAdd(CScale(NPart(u, q), v.den), CScale(NPart(v, q), u.den))]])
\* u * p/q
NScale(u, p, q) ==
    NCanon([M |-> u.M, den |-> u.den * q,
            parts |-> [k \in DOMAIN u.parts |-> CScale(NPart(u, k), p)]])
\* u * w^r
NRot(u, r) ==
    NCanon([u EXCEPT !.parts = [q \in DOMAIN u.parts |-> CRot(NPart(u, q), r % u.M)]])
NConj(u) ==
    NCanon([u EXCEPT !.parts = [q \in DOMAIN u.parts |-> CConj(NPart(u, q))]])
\* u * sqrt(a) / sqrt(b), for the squared norms a and b
NMulSqrt(u, a, b) ==
    LET live == a > 0 /\ b > 0
        m == IF live THEN SquarePart(a * b) ELSE 1
        s == IF live THEN (a * b) \div (m * m) ELSE 1
        keyOf(q) == IF b = 0 \/ q = -1 THEN -1
                    ELSE IF a = 0 \/ q = 0 THEN 0
                    ELSE (q \div GCD(q, s)) * (s \div GCD(q, s))
        mult(q) == IF live /\ q > 0 THEN GCD(q, s) * m ELSE 1
        keys == {keyOf(q) : q \in DOMAIN u.parts}
    IN  NCanon([M |-> u.M, den |-> IF live THEN u.den * b ELSE u.den,
                parts |-> [k \in keys |->
                    CSumFn(u.M, [q \in {x \in DOMAIN u.parts : keyOf(x) = k} |->
                                    CScale(NPart(u, q), mult(q))])]])

\* the sum of the numbers F[x], x in DOMAIN F
RECURSIVE NSumFn(_, _)
NSumFn(M, F) ==
    IF DOMAIN F = {} THEN NZero(M)
    ELSE LET x == CHOOSE x \in DOMAIN F : TRUE
         IN  NAdd(F[x], NSumFn(M, [y \in DOMAIN F \ {x} |-> F[y]]))

(***************************************************************************)
(* Bit-state codec.                                                        *)
(***************************************************************************)
\* _translate_x_aux: a = 2^(n+Nx), b = e = 2^n for n in arange(0, Nx*Ny, Nx),
\* c = 2^Nx, d = 2^(Nx-1)
translate_x_aux(Nx, Ny) ==
    [n |-> {Nx * r : r \in 0..(Ny - 1)}, c |-> 2^Nx, d |-> 2^(Nx - 1)]

\* translate_x without the reduction modulo c: s = s * 2 + s // d
translate_x_nowrap(dec, Nx, Ny) ==
    LET aux == translate_x_aux(Nx, Ny)
        s == [n \in aux.n |-> (dec % 2^(n + Nx)) \div 2^n]
        t == [n \in aux.n |-> (s[n] * 2) + (s[n] \div aux.d)]
    IN  SumFn([n \in aux.n |-> 2^n * t[n]])

\* translate_x: s = dec % a // b; s = (s * 2) % c + s // d; return e.dot(s)
translate_x(dec, Nx, Ny) ==
    LET aux == translate_x_aux(Nx, Ny)
        s == [n \in aux.n |-> (dec % 2^(n + Nx)) \div 2^n]
        t == [n \in aux.n |-> ((s[n] * 2) % aux.c) + (s[n] \div aux.d)]
    IN  SumFn([n \in aux.n |-> 2^n * t[n]])

\* _translate_y_aux: (2^Nx, 2^(Nx*(Ny-1)))
translate_y_aux(Nx, Ny) == [xdim |-> 2^Nx, pred_totdim |-> 2^(Nx * (Ny - 1))]

\* translate_y: tail = dec % xdim; return dec // xdim + tail * pred_totdim
translate_y(dec, Nx, Ny) ==
    LET aux == translate_y_aux(Nx, Ny)
        tail == dec % aux.xdim
    IN  (dec \div aux.xdim) + tail * aux.pred_totdim

(***************************************************************************)
(* Bloch basis builder.                                                    *)
(*                                                                         *)
(* A BlochFunc is [lead, decs, norm]: decs maps each product state of the  *)
(* orbit to the sequence of (row, col) positions at which the sweep met    *)
(* it.  norm holds the SQUARE of the float the program stores (None before *)
(* the first scoring), 0 standing for a norm below the tolerance.          *)
(* A BlochFuncSet is [objs, data, hashtable, nonzero]: objs are its        *)
(* BlochFunc objects in creation order, data and hashtable refer to them   *)
(* by their index in objs, as the Python lists and dict refer to the same  *)
(* objects.                                                                *)
(***************************************************************************)
\* Python's None in a field that otherwise holds a number
None == -1

\* BlochFunc.__init__
BlochFunc(lead, decs) == [lead |-> lead, decs |-> decs, norm |-> None]

\* the two nested loops of find_T_invariant_set, t = n * Nx + m
\* translate_y applied row times and translate_x applied col times to dec
RECURSIVE translations(_, _, _, _, _)
translations(dec, row, col, Nx, Ny) ==
    IF row > 0 THEN translations(translate_y(dec, Nx, Ny), row - 1, col, Nx, Ny)
    ELSE IF col > 0 THEN translations(translate_x(dec, Nx, Ny), row, col - 1, Nx, Ny)
    ELSE dec

\* the two loops without the translate_y that ends a row
RECURSIVE sweep_rows_alike(_, _, _, _, _, _)
sweep_rows_alike(t, new_dec, decs, sieve, Nx, Ny) ==
    IF t = Nx * Ny THEN [decs |-> decs, sieve |-> sieve, new_dec |-> new_dec]
    ELSE sweep_rows_alike(t + 1, translate_x(new_dec, Nx, Ny),
                          IF new_dec \in DOMAIN decs
                          THEN [decs EXCEPT ![new_dec] = Append(@, <<t \div Nx, t % Nx>>)]
                          ELSE decs @@ (new_dec :> << <<t \div Nx, t % Nx>> >>),
                          [sieve EXCEPT ![new_dec] = 0], Nx, Ny)

RECURSIVE sweep(_, _, _, _, _, _)
sweep(t, new_dec, decs, sieve, Nx, Ny) ==
    IF t = Nx * Ny THEN [decs |-> decs, sieve |-> sieve, new_dec |-> new_dec]
    ELSE LET n == t \div Nx
             m == t % Nx
             sieve1 == [sieve EXCEPT ![new_dec] = 0]
             decs1 == IF new_dec \in DOMAIN decs
                      THEN [decs EXCEPT ![new_dec] = Append(@, <<n, m>>)]
                      ELSE decs @@ (new_dec :> << <<n, m>> >>)
             x == translate_x(new_dec, Nx, Ny)
             nxt == IF m = Nx - 1 THEN translate_y(x, Nx, Ny) ELSE x
         IN  sweep(t + 1, nxt, decs1, sieve1, Nx, Ny)

\* find_T_invariant_set(dec): the orbit, and the sieve it leaves
find_T_invariant_set(dec, sieve, Nx, Ny) ==
    LET r == sweep(0, dec, <<>>, sieve, Nx, Ny)
    IN  [bfunc |-> BlochFunc(dec, r.decs), sieve |-> r.sieve, new_dec |-> r.new_dec]

\* the loop "for dec in range(2 ** N): if sieve[dec]: bfuncs.append(...)"
RECURSIVE collect(_, _, _, _, _)
collect(dec, sieve, bfuncs, Nx, Ny) ==
    IF dec = 2^(Nx * Ny) THEN bfuncs
    ELSE IF sieve[dec] = 1
         THEN LET r == find_T_invariant_set(dec, sieve, Nx, Ny)
              IN  collect(dec + 1, r.sieve, Append(bfuncs, r.bfunc), Nx, Ny)
         ELSE collect(dec + 1, sieve, bfuncs, Nx, Ny)

\* _populate_dict entering each bfunc under its lead only
populate_dict_leads(objs) ==
    LET keys == {objs[i].lead : i \in 1..Len(objs)}
    IN  [dec \in keys |->
            CHOOSE i \in 1..Len(objs) :
                /\ dec = objs[i].lead
                /\ \A j \in (i + 1)..Len(objs) : dec # objs[j].lead]

\* BlochFuncSet._populate_dict: a later bfunc overwrites the entry of an earlier one
populate_dict(objs) ==
    LET keys == UNION {DOMAIN objs[i].decs : i \in 1..Len(objs)}
    IN  [dec \in keys |->
            CHOOSE i \in 1..Len(objs) :
                /\ dec \in DOMAIN objs[i].decs
                /\ \A j \in (i + 1)..Len(objs) : dec \notin DOMAIN objs[j].decs]

\* the data ordered by descending lead
sort_by_lead_descending(objs, data) ==
    LET rank(a) == Cardinality({b \in 1..Len(data) :
                        \/ objs[data[b]].lead > objs[data[a]].lead
                        \/ objs[data[b]].lead = objs[data[a]].lead /\ b < a})
    IN  [k \in 1..Len(data) |-> data[CHOOSE a \in 1..Len(data) : rank(a) = k - 1]]

\* BlochFuncSet.sort: sorted(self.data, key=lambda x: x.lead), a stable sort
sort_by_lead(objs, data) ==
    LET before(a, b) == \/ objs[data[a]].lead < objs[data[b]].lead
                        \/ objs[data[a]].lead = objs[data[b]].lead /\ a < b
        rank(a) == Cardinality({b \in 1..Len(data) : before(b, a)})
    IN  [k \in 1..Len(data) |-> data[CHOOSE a \in 1..Len(data) : rank(a) = k - 1]]

\* BlochFuncSet.__init__
BlochFuncSet(bfuncs) ==
    [objs |-> bfuncs, data |-> [i \in 1..Len(bfuncs) |-> i],
     hashtable |-> populate_dict(bfuncs), nonzero |-> None]

\* zero_momentum_states(Nx, Ny), without its lru_cache
zero_momentum_states(Nx, Ny) ==
    LET sieve == [dec \in 0..(2^(Nx * Ny) - 1) |-> 1]
        table == BlochFuncSet(collect(0, sieve, <<>>, Nx, Ny))
    IN  [table EXCEPT !.data = sort_by_lead(table.objs, table.data)]

(***************************************************************************)
(* Geometry.  A site is <<x, y>>.  constructors.PeriodicBCSiteVector is    *)
(* not part of the sources at hand: xhop, yhop, lattice_index, from_index, *)
(* next_site, the order of sites and the difference of two sites are       *)
(* modelled from the specification (row-major index, coordinates wrapped   *)
(* modulo the lattice extent).                                             *)
(***************************************************************************)
xhop(v, stride, Nx, Ny) == <<(v[1] + stride) % Nx, v[2]>>
yhop(v, stride, Nx, Ny) == <<v[1], (v[2] + stride) % Ny>>
lattice_index(v, Nx) == v[1] + Nx * v[2]
from_index(index, Nx, Ny) == <<index % Nx, index \div Nx>>
\* some_site - self, used by angle_with only for which components are zero
site_diff(a, b) == <<a[1] - b[1], a[2] - b[2]>>

\* the outcome of a hop that raises exceptions.SameSite
SameSite == <<-1, -1>>

\* SiteVector.a1_hop .. b3_hop: the site reached, or SameSite raised
a1_hop(v, stride, Nx, Ny) ==
    LET vec == xhop(v, stride, Nx, Ny) IN IF vec = v THEN SameSite ELSE vec
a2_hop(v, stride, Nx, Ny) ==
    LET vec == yhop(xhop(v, -1 * stride, Nx, Ny), stride, Nx, Ny)
    IN  IF vec = v THEN SameSite ELSE vec
a3_hop(v, stride, Nx, Ny) ==
    LET vec == yhop(v, -stride, Nx, Ny) IN IF vec = v THEN SameSite ELSE vec
b1_hop(v, stride, Nx, Ny) ==
    LET vec == yhop(xhop(v, stride, Nx, Ny), stride, Nx, Ny)
    IN  IF vec = v THEN SameSite ELSE vec
b2_hop(v, stride, Nx, Ny) ==
    LET vec == yhop(xhop(v, -2 * stride, Nx, Ny), stride, Nx, Ny)
    IN  IF vec = v THEN SameSite ELSE vec
\* self.b1_hop(-stride).b2_hop(-stride): either inner hop may raise too
b3_hop(v, stride, Nx, Ny) ==
    LET u == b1_hop(v, -stride, Nx, Ny)
        vec == IF u = SameSite THEN SameSite ELSE b2_hop(u, -stride, Nx, Ny)
    IN  IF vec = SameSite \/ vec = v THEN SameSite ELSE vec

hop(func, v, stride, Nx, Ny) ==
    CASE func = "a1" -> a1_hop(v, stride, Nx, Ny)
      [] func = "a2" -> a2_hop(v, stride, Nx, Ny)
      [] func = "a3" -> a3_hop(v, stride, Nx, Ny)
      [] func = "b1" -> b1_hop(v, stride, Nx, Ny)
      [] func = "b2" -> b2_hop(v, stride, Nx, Ny)
      [] func = "b3" -> b3_hop(v, stride, Nx, Ny)

\* SiteVector._neighboring_sites: the hops that do not raise SameSite,
\* as <<stride, func, site>> (the program keeps the sites, in this order)
neighboring_sites(v, strides, funcs, Nx, Ny) ==
    {<<st, f, hop(f, v, st, Nx, Ny)>> : st \in strides, f \in funcs} \ 
        {<<st, f, SameSite>> : st \in strides, f \in funcs}

\* nearest_ / second_ / third_neighboring_sites; a property takes no
\* argument, so "all" is always False
neighbors_of_range(v, l, Nx, Ny) ==
    CASE l = 1 -> neighboring_sites(v, {1}, {"a1", "a2", "a3"}, Nx, Ny)
      [] l = 2 -> neighboring_sites(v, {1}, {"b1", "b2", "b3"}, Nx, Ny)
      [] l = 3 -> neighboring_sites(v, {2}, {"a1", "a2", "a3"}, Nx, Ny)

\* the outcome of a hop that raises exceptions.OutOfBoundsError
OutOfBounds == <<-2, -2>>

\* SemiPeriodicBCSiteVector.yhop: the test compares new_y // Ny with
\* self.x // Ny
semi_yhop(v, stride, Nx, Ny) ==
    IF (v[2] + stride) \div Ny = v[1] \div Ny THEN <<v[1], v[2] + stride>>
    ELSE OutOfBounds

\* SemiPeriodicBCSiteVector.neighboring_sites: the lattice indices appended,
\* in order; xhop is the periodic one and raises nothing
semi_neighboring_sites(v, Nx, Ny) ==
    LET index(site) == IF site = OutOfBounds THEN <<>> ELSE <<lattice_index(site, Nx)>>
        round(d) == index(xhop(v, d, Nx, Ny))
                    \o index(semi_yhop(v, d, Nx, Ny))
                    \o index(semi_yhop(xhop(v, d, Nx, Ny), 0 - d, Nx, Ny))
    IN  round(1) \o round(-1)

\* sorted((vec, n)): the pair in the order of the sites
sorted_bond(v, n, Nx) ==
    IF lattice_index(v, Nx) <= lattice_index(n, Nx) THEN <<v, n>> ELSE <<n, v>>

\* _generate_bonds(Nx, Ny)[l - 1]: the set of range-l bonds; the loop's
\* vec after i calls of next_site is the site of index i
generate_bonds(Nx, Ny, l) ==
    UNION {{sorted_bond(from_index(i, Nx, Ny), nb[3], Nx) :
                nb \in neighbors_of_range(from_index(i, Nx, Ny), l, Nx, Ny)} :
            i \in 0..(Nx * Ny - 1)}

\* a set of pairs of naturals as a sequence in lexicographic order
RECURSIVE SortedSeq(_)
SortedSeq(S) ==
    IF S = {} THEN <<>>
    ELSE LET x == CHOOSE x \in S : \A y \in S :
                      x[1] < y[1] \/ (x[1] = y[1] /\ x[2] <= y[2])
         IN  <<x>> \o SortedSeq(S \ {x})

\* _interacting_sites(Nx, Ny, l): zip(2 ** site1, 2 ** site2).  Python walks
\* the set of bonds in hash order; the model walks it in the order of the
\* lattice indices.
interacting_sites(Nx, Ny, l) ==
    LET ix == SortedSeq({<<lattice_index(b[1], Nx), lattice_index(b[2], Nx)>> :
                            b \in generate_bonds(Nx, Ny, l)})
    IN  [k \in 1..Len(ix) |-> <<2^(ix[k][1]), 2^(ix[k][2])>>]

\* the @functools.lru_cache(maxsize=None) of _interacting_sites, filled
cached_interacting_sites ==
    [a \in {<<L[1], L[2], l>> : L \in Lattices, l \in 1..3} |->
        interacting_sites(a[1], a[2], a[3])]

(***************************************************************************)
(* Phases and norms.                                                       *)
(***************************************************************************)
Sectors(Nx, Ny) == (0..(Nx - 1)) \X (0..(Ny - 1))

\* _phase_arr(Nx, Ny, kx, ky)[n, m] =
\*     exp(2j*pi*kx*m/Nx) * exp(2j*pi*ky*n/Ny)
phase_arr(Nx, Ny, kx, ky) ==
    LET M == RootOrder(Nx, Ny)
    IN  [pos \in (0..(Ny - 1)) \X (0..(Nx - 1)) |->
            CMono(M, kx * pos[2] * (M \div Nx) + ky * pos[1] * (M \div Ny))]

\* the phase of the first position alone, without the other occurrences
phase_sum_first(locs, Nx, Ny, kx, ky) == phase_arr(Nx, Ny, kx, ky)[locs[1]]

\* np.sum(phase_arr[rows, cols]) over the positions locs
phase_sum(locs, Nx, Ny, kx, ky) ==
    LET arr == phase_arr(Nx, Ny, kx, ky)
    IN  CSumFn(RootOrder(Nx, Ny), [t \in 1..Len(locs) |-> arr[locs[t]]])

\* the magnitude of the one sum over all positions of all states, squared
norm_square_onesum(bfunc, Nx, Ny, kx, ky) ==
    LET M == RootOrder(Nx, Ny)
        tot == CSumFn(M, [d \in DOMAIN bfunc.decs |->
                            phase_sum(bfunc.decs[d], Nx, Ny, kx, ky)])
    IN  CNormal(CMul(tot, CConj(tot)))

\* the magnitude of the sum over the positions of the lead alone, squared
norm_square_lead(bfunc, Nx, Ny, kx, ky) ==
    LET ph == phase_sum(bfunc.decs[bfunc.lead], Nx, Ny, kx, ky)
    IN  CNormal(CMul(ph, CConj(ph)))

\* the square of np.linalg.norm(phases): the sum over the states of the
\* orbit of |phase sum of the state|^2, as a cyclotomic integer
norm_square(bfunc, Nx, Ny, kx, ky) ==
    LET M == RootOrder(Nx, Ny)
        ph == [d \in DOMAIN bfunc.decs |-> phase_sum(bfunc.decs[d], Nx, Ny, kx, ky)]
    IN  CNormal(CSumFn(M, [d \in DOMAIN ph |-> CMul(ph[d], CConj(ph[d]))]))

\* _norm_coeff(bfunc, Nx, Ny, kx, ky), squared (a rational integer)
norm_coeff(bfunc, Nx, Ny, kx, ky) == CInt(norm_square(bfunc, Nx, Ny, kx, ky))

(***************************************************************************)
(* The state the module keeps between calls, as one record P:              *)
(*   heap      the live BlochFuncSet objects, by object id                 *)
(*   zms       lru_cache(maxsize=1) of zero_momentum_states                *)
(*   bloch     lru_cache(maxsize=1) of _bloch_states                       *)
(*   gen       lru_cache(maxsize=1) of _gen_ind_dec_conv_dicts             *)
(*   memo      lru_cache(maxsize=None) of _find_leading_state              *)
(*   matcache  the cache of utils.cache.matcache                           *)
(* A cache of maxsize 1 is a sequence of at most one [key, val].  A        *)
(* BlochFunc is referred to as <<object id of its set, index in objs>>.    *)
(* The lru_caches of _generate_bonds, _interacting_sites, _phase_arr,      *)
(* _gamma and the _aux functions hold values nothing mutates: a hit and a  *)
(* miss give the same value, and the model does not carry them.            *)
(***************************************************************************)
EmptyProgram ==
    [heap |-> <<>>, zms |-> <<>>, bloch |-> <<>>, gen |-> <<>>,
     memo |-> <<>>, matcache |-> <<>>]

lru_hit(cache, key) == cache # <<>> /\ cache[1].key = key

FreshId(P) == CHOOSE n \in 0..Cardinality(DOMAIN P.heap) : n \notin DOMAIN P.heap

deref(P, ref) == P.heap[ref[1]].objs[ref[2]]

\* the object ids some cache still refers to; Python frees the other sets
Referenced(P) ==
    {P.zms[k].val : k \in DOMAIN P.zms}
    \cup {P.bloch[k].val : k \in DOMAIN P.bloch}
    \cup {P.gen[k].val.ind_to_dec[i][1] :
            k \in DOMAIN P.gen, i \in UNION {DOMAIN P.gen[c].val.ind_to_dec : c \in DOMAIN P.gen}}
    \cup {P.memo[k].st[1] : k \in DOMAIN P.memo}
Collect(P) == [P EXCEPT !.heap = [id \in DOMAIN P.heap \cap Referenced(P) |-> P.heap[id]]]

\* what zero_momentum_states builds for each lattice: the calls of one
\* lattice build equal sets, each call a new object
zero_momentum_states_of == [L \in Lattices |-> zero_momentum_states(L[1], L[2])]

\* what _norm_coeff returns for the i-th bfunc of a lattice in each sector
\* (it reads lead and decs only, which nothing changes after construction)
norm_coeff_of ==
    [L \in Lattices |-> [k \in Sectors(L[1], L[2]) |->
        [i \in 1..Len(zero_momentum_states_of[L].objs) |->
            norm_coeff(zero_momentum_states_of[L].objs[i], L[1], L[2], k[1], k[2])]]]

\* zero_momentum_states(Nx, Ny) behind @functools.lru_cache(maxsize=1)
cached_zero_momentum_states(P, Nx, Ny) ==
    IF lru_hit(P.zms, <<Nx, Ny>>) THEN [P |-> P, val |-> P.zms[1].val]
    ELSE LET id == FreshId(P)
         IN  [P |-> [P EXCEPT !.heap = (id :> zero_momentum_states_of[<<Nx, Ny>>]) @@ @,
                               !.zms = <<[key |-> <<Nx, Ny>>, val |-> id]>>],
              val |-> id]

\* the loop of _bloch_states: every bfunc of the set gets the norm of the
\* sector, and the set its count of norms above the tolerance
score(table, Nx, Ny, kx, ky) ==
    CHOOSE result \in {
        [table EXCEPT !.objs = objs,
                      !.nonzero = Cardinality({k \in 1..Len(table.data) :
                                                  objs[table.data[k]].norm > 0})]
        : objs \in {[i \in 1..Len(table.objs) |->
            IF \E k \in 1..Len(table.data) : table.data[k] = i
            THEN [table.objs[i] EXCEPT !.norm = norm_coeff_of[<<Nx, Ny>>][<<kx, ky>>][i]]
            ELSE table.objs[i]]}} : TRUE

\* _bloch_states(Nx, Ny, kx, ky) behind @functools.lru_cache(maxsize=1)
bloch_states(P, Nx, Ny, kx, ky) ==
    IF lru_hit(P.bloch, <<Nx, Ny, kx, ky>>) THEN [P |-> P, val |-> P.bloch[1].val]
    ELSE CHOOSE result \in {
            [P |-> [r.P EXCEPT !.heap[r.val] = score(r.P.heap[r.val], Nx, Ny, kx, ky),
                               !.bloch = <<[key |-> <<Nx, Ny, kx, ky>>, val |-> r.val]>>],
             val |-> r.val]
            : r \in {cached_zero_momentum_states(P, Nx, Ny)}} : TRUE

NoValue == [st |-> <<0, 0>>, phase |-> NZero(1)]

\* the lookup without the test of the norm against the tolerance
leading_state_unchecked(r, Nx, Ny, kx, ky, dec) ==
    LET oi == r.P.heap[r.val].hashtable[dec]
        sum == CConj(phase_sum(r.P.heap[r.val].objs[oi].decs[dec], Nx, Ny, kx, ky))
        val == [st |-> <<r.val, oi>>,
                phase |-> NMulSqrt(NFromC(sum), 1, CInt(CMul(sum, CConj(sum))))]
    IN  [P |-> [r.P EXCEPT !.memo = (<<Nx, Ny, kx, ky, dec>> :> val) @@ @],
         exc |-> "", val |-> val]

\* lines 696-707 of _find_leading_state, on a miss of its cache: r is what
\* _bloch_states returned
leading_state(r, Nx, Ny, kx, ky, dec) ==
    LET table == r.P.heap[r.val] IN
    IF dec \notin DOMAIN table.hashtable
    THEN [P |-> r.P, exc |-> "KeyError", val |-> NoValue]
    ELSE LET oi == table.hashtable[dec]
             cntd_state == table.objs[oi]
         IN  IF cntd_state.norm = None
             THEN [P |-> r.P, exc |-> "TypeError", val |-> NoValue]
             ELSE IF cntd_state.norm = 0   \* norm < 1e-8
             THEN [P |-> r.P, exc |-> "NotFoundError", val |-> NoValue]
             ELSE CHOOSE result \in {
                    [P |-> [r.P EXCEPT !.memo = (<<Nx, Ny, kx, ky, dec>> :> val) @@ @],
                     exc |-> "", val |-> val]
                    : val \in {CHOOSE result2 \in {
                        [st |-> <<r.val, oi>>,
                         phase |-> NMulSqrt(NFromC(sum), 1, CInt(CMul(sum, CConj(sum))))]
                        : sum \in {CConj(phase_sum(cntd_state.decs[dec],
                                                   Nx, Ny, kx, ky))}} : TRUE}} : TRUE

\* _find_leading_state(Nx, Ny, kx, ky, dec) behind
\* @functools.lru_cache(maxsize=None): [P, exc, val], val = [st, phase]
find_leading_state(P, Nx, Ny, kx, ky, dec) ==
    IF <<Nx, Ny, kx, ky, dec>> \in DOMAIN P.memo
    THEN [P |-> P, exc |-> "", val |-> P.memo[<<Nx, Ny, kx, ky, dec>>]]
    ELSE CHOOSE result \in {leading_state(r, Nx, Ny, kx, ky, dec)
                            : r \in {bloch_states(P, Nx, Ny, kx, ky)}} : TRUE

\* the two dicts over every orbit of the set, whatever its norm
ind_dec_conv_dicts_all(r) ==
    LET states == r.P.heap[r.val]
        nstates == Len(states.data)
    IN  [ind_to_dec |-> [ind \in 0..(nstates - 1) |-> <<r.val, states.data[ind + 1]>>],
         dec_to_ind |-> [d \in {states.objs[states.data[k]].lead : k \in 1..nstates} |->
            (CHOOSE k \in 1..nstates : states.objs[states.data[k]].lead = d) - 1]]

\* lines 710-719 of _gen_ind_dec_conv_dicts, on a miss of its cache:
\* [ind_to_dec, dec_to_ind], indices from 0
ind_dec_conv_dicts(r) ==
    LET states == r.P.heap[r.val] IN
    CHOOSE result \in {
        LET nstates == Len(nonzero_states)
            leads == {states.objs[nonzero_states[k]].lead : k \in 1..nstates}
        IN  [ind_to_dec |-> [ind \in 0..(nstates - 1) |-> <<r.val, nonzero_states[ind + 1]>>],
             dec_to_ind |-> [d \in leads |->
                (CHOOSE k \in 1..nstates :
                    /\ states.objs[nonzero_states[k]].lead = d
                    /\ \A k2 \in (k + 1)..nstates :
                           states.objs[nonzero_states[k2]].lead # d) - 1]]
        : nonzero_states \in {SelectSeq(states.data,
                                        LAMBDA i : states.objs[i].norm > 0)}} : TRUE

\* _gen_ind_dec_conv_dicts(Nx, Ny, kx, ky) behind @functools.lru_cache(maxsize=1)
gen_ind_dec_conv_dicts(P, Nx, Ny, kx, ky) ==
    IF lru_hit(P.gen, <<Nx, Ny, kx, ky>>) THEN [P |-> P, val |-> P.gen[1].val]
    ELSE CHOOSE result \in {
            CHOOSE result2 \in {
                [P |-> [r.P EXCEPT !.gen = <<[key |-> <<Nx, Ny, kx, ky>>, val |-> val]>>],
                 val |-> val]
                : val \in {ind_dec_conv_dicts(r)}} : TRUE
            : r \in {bloch_states(P, Nx, Ny, kx, ky)}} : TRUE

(***************************************************************************)
(* The element functions.  K is <<Nx, Ny, kx, ky>>.  A function that can   *)
(* raise returns [P, exc, val]: the program state it leaves, the name of   *)
(* the exception that escaped it ("" for none) and its value.              *)
(***************************************************************************)
\* dec | s == dec, for s a power of two
bit_set(dec, s) == (dec \div s) % 2 = 1

\* the test for up at s1 and down at s2 alone
exchange_spin_flips_updown(dec, s1, s2) ==
    [updown |-> bit_set(dec, s1) /\ ~bit_set(dec, s2), downup |-> FALSE]

exchange_spin_flips(dec, s1, s2) ==
    [updown |-> bit_set(dec, s1) /\ ~bit_set(dec, s2),
     downup |-> ~bit_set(dec, s1) /\ bit_set(dec, s2)]

\* a count of the up-up pairs alone
repeated_spins_upup(dec, s1, s2) ==
    [upup |-> bit_set(dec, s1) /\ bit_set(dec, s2), downdown |-> FALSE]

repeated_spins(dec, s1, s2) ==
    [upup |-> bit_set(dec, s1) /\ bit_set(dec, s2),
     downdown |-> ~bit_set(dec, s1) /\ ~bit_set(dec, s2)]

RECURSIVE log2(_)
log2(s) == IF s <= 1 THEN 0 ELSE 1 + log2(s \div 2)

\* SiteVector.angle_with, in units of 2 pi / M (None when the sites coincide)
angle_with(v, some_site, M) ==
    LET d == site_diff(some_site, v)
    IN  IF d[1] = 0 THEN (IF d[2] # 0 THEN 0 - (M \div 3) ELSE None)
        ELSE IF d[2] = 0 THEN 0
        ELSE M \div 3

\* _gamma: the exponent r of gamma = w^r
gamma(Nx, Ny, s1, s2) ==
    angle_with(from_index(log2(s1), Nx, Ny), from_index(log2(s2), Nx, Ny),
               RootOrder(Nx, Ny))

\* the diagonal entry of z_mats[k] = half.full_matrix(constructors.sigmaz(),
\* k, N) at the product state dec, times 2: sigmaz is the spin-1/2 S^z
sigmaz_diag(dec, k) == IF bit_set(dec, 2^k) THEN 1 ELSE -1

\* _gen_z_pm_ops(N, bonds) with the range-l bonds: the diagonal entry of
\* H_z at the product state dec, times 4
gen_z_ops(Nx, Ny, l, dec) ==
    SumFn([b \in generate_bonds(Nx, Ny, l) |->
            sigmaz_diag(dec, lattice_index(b[1], Nx))
                * sigmaz_diag(dec, lattice_index(b[2], Nx))])

\* _coeff: cntd_state.norm / orig_state.norm, as the two squared norms
coeff(orig_state, cntd_state) == [num |-> cntd_state.norm, den |-> orig_state.norm]

\* H_z_elements
H_z_elements(P, K, i, l) ==
    CHOOSE result \in {
        IF i \notin DOMAIN r.val.ind_to_dec
        THEN [P |-> r.P, exc |-> "KeyError", val |-> NZero(RootOrder(K[1], K[2]))]
        ELSE [P |-> r.P, exc |-> "",
              val |-> NRat(RootOrder(K[1], K[2]),
                           2 * Cardinality({k \in 1..Len(sites) :
                               LET rs == repeated_spins(deref(r.P, r.val.ind_to_dec[i]).lead,
                                                        sites[k][1], sites[k][2])
                               IN  rs.upup \/ rs.downdown}) - Len(sites),
                           4)]
        : r \in {gen_ind_dec_conv_dicts(P, K[1], K[2], K[3], K[4])},
          sites \in {cached_interacting_sites[<<K[1], K[2], l>>]}} : TRUE

\* what the loop body of an off-diagonal element function hands to its try
\* block: the connected state new_dec and the factor w^rot * p / q that
\* multiplies phase * _coeff; exc is the exception raised before the try
connection(new_dec, rot, p, q) ==
    [exc |-> "", new_dec |-> new_dec, rot |-> rot, p |-> p, q |-> q]
no_connection(exc) == [exc |-> exc, new_dec |-> 0, rot |-> 0, p |-> 0, q |-> 1]

\* lines 823-830 of H_pm_elements for one bond
H_pm_elements(lead, K, s1, s2) ==
    LET f == exchange_spin_flips(lead, s1, s2)
    IN  IF f.updown THEN <<connection(lead - s1 + s2, 0, 1, 1)>>
        ELSE IF f.downup THEN <<connection(lead + s1 - s2, 0, 1, 1)>>
        ELSE <<>>

\* lines 881-888 of H_ppmm_elements for one bond
H_ppmm_elements(lead, K, s1, s2) ==
    LET f == repeated_spins(lead, s1, s2)
        g == gamma(K[1], K[2], s1, s2)
    IN  IF ~(f.upup \/ f.downdown) THEN <<>>
        ELSE IF g = None THEN <<no_connection("TypeError")>>
        ELSE IF f.upup THEN <<connection(lead - s1 - s2, 0 - g, 1, 1)>>
        ELSE <<connection(lead + s1 + s2, g, 1, 1)>>

\* lines 935-945 of H_pmz_elements: one of the two passes over a bond;
\* z_contrib is in halves
H_pmz_pass(lead, K, s1, s2) ==
    LET z_contrib == IF bit_set(lead, s1) THEN 1 ELSE -1
        g == gamma(K[1], K[2], s1, s2)
    IN  IF g = None THEN no_connection("TypeError")
        ELSE IF bit_set(lead, s2) THEN connection(lead - s2, 0 - g, z_contrib, 2)
        ELSE connection(lead + s2, g, 0 - z_contrib, 2)

\* one pass over a bond, without the repetition with the sites switched
H_pmz_elements_one_pass(lead, K, s1, s2) == <<H_pmz_pass(lead, K, s1, s2)>>

\* lines 934-959 of H_pmz_elements for one bond: sites 1 and 2, then sites
\* 2 and 1
H_pmz_elements(lead, K, s1, s2) ==
    <<H_pmz_pass(lead, K, s1, s2), H_pmz_pass(lead, K, s2, s1)>>

\* for s1, s2 in zip(*sites): what the bonds from the k-th on hand to the
\* try block, in order
RECURSIVE connections(_, _, _, _, _)
connections(func, lead, K, sites, k) ==
    IF k > Len(sites) THEN <<>>
    ELSE (IF func = "H_pm_elements" THEN H_pm_elements(lead, K, sites[k][1], sites[k][2])
          ELSE IF func = "H_ppmm_elements"
          THEN H_ppmm_elements(lead, K, sites[k][1], sites[k][2])
          ELSE H_pmz_elements(lead, K, sites[k][1], sites[k][2]))
         \o connections(func, lead, K, sites, k + 1)

\* lines 838-844: the index j of the connected state, and factor * phase *
\* _coeff added to j_element[j]; r is what _find_leading_state returned
accumulate(S, r, orig_ref, dec_to_ind, c) ==
    LET cntd_state == deref(r.P, r.val.st)
        orig_state == deref(r.P, orig_ref)
    IN  IF cntd_state.lead \notin DOMAIN dec_to_ind
        THEN [S EXCEPT !.P = r.P, !.exc = "KeyError"]
        ELSE IF cntd_state.norm = None \/ orig_state.norm = None
        THEN [S EXCEPT !.P = r.P, !.exc = "TypeError"]
        ELSE CHOOSE result \in {
                [P |-> r.P, exc |-> "",
                 val |-> IF j \in DOMAIN S.val THEN [S.val EXCEPT ![j] = NAdd(@, v)]
                         ELSE (j :> v) @@ S.val]
                : j \in {dec_to_ind[cntd_state.lead]},
                  v \in {NScale(NRot(NMulSqrt(r.val.phase,
                                              coeff(orig_state, cntd_state).num,
                                              coeff(orig_state, cntd_state).den),
                                     c.rot), c.p, c.q)}} : TRUE

\* the lookup and accumulation without the except clause: NotFoundError
\* leaves the element function
connect_uncaught(S, K, orig_ref, dec_to_ind, c) ==
    IF c.exc # "" THEN [S EXCEPT !.exc = c.exc]
    ELSE CHOOSE result \in {
            IF r.exc # "" THEN [S EXCEPT !.P = r.P, !.exc = r.exc]
            ELSE accumulate(S, r, orig_ref, dec_to_ind, c)
            : r \in {find_leading_state(S.P, K[1], K[2], K[3], K[4], c.new_dec)}} : TRUE

\* the try block the three off-diagonal element functions share: look the
\* connected state up and accumulate; NotFoundError is absorbed
connect(S, K, orig_ref, dec_to_ind, c) ==
    IF c.exc # "" THEN [S EXCEPT !.exc = c.exc]
    ELSE CHOOSE result \in {
            IF r.exc = "NotFoundError" THEN [S EXCEPT !.P = r.P]
            ELSE IF r.exc # "" THEN [S EXCEPT !.P = r.P, !.exc = r.exc]
            ELSE accumulate(S, r, orig_ref, dec_to_ind, c)
            : r \in {find_leading_state(S.P, K[1], K[2], K[3], K[4], c.new_dec)}} : TRUE

\* the try blocks of one row, from the k-th connection on
RECURSIVE connect_loop(_, _, _, _, _, _)
connect_loop(S0, K, orig_ref, dec_to_ind, cs, k) ==
    CHOOSE result \in {
        IF k > Len(cs) \/ S.exc # "" THEN S
        ELSE connect_loop(connect(S, K, orig_ref, dec_to_ind, cs[k]),
                          K, orig_ref, dec_to_ind, cs, k + 1)
        : S \in {S0}} : TRUE

\* H_pm_elements, H_ppmm_elements, H_pmz_elements as _offdiag_components
\* calls them (func names which): val is j_element
offdiag_elements(func, P, K, i, l) ==
    CHOOSE result \in {
        IF i \notin DOMAIN r.val.ind_to_dec
        THEN [P |-> r.P, exc |-> "KeyError", val |-> <<>>]
        ELSE connect_loop([P |-> r.P, exc |-> "", val |-> <<>>], K,
                          r.val.ind_to_dec[i], r.val.dec_to_ind,
                          connections(func, deref(r.P, r.val.ind_to_dec[i]).lead, K,
                                      cached_interacting_sites[<<K[1], K[2], l>>], 1),
                          1)
        : r \in {gen_ind_dec_conv_dicts(P, K[1], K[2], K[3], K[4])}} : TRUE

(***************************************************************************)
(* Matrices: [n, e], e[<<i, j>>] the entry of row i and column j, indices  *)
(* from 0.                                                                 *)
(***************************************************************************)
MZero(n, M) == [n |-> n, e |-> [ij \in (0..(n - 1)) \X (0..(n - 1)) |-> NZero(M)]]
MAdd(A, B) == [n |-> A.n, e |-> [ij \in DOMAIN A.e |-> NAdd(A.e[ij], B.e[ij])]]
MScale(A, p, q) == [n |-> A.n, e |-> [ij \in DOMAIN A.e |-> NScale(A.e[ij], p, q)]]
MRot(A, r) == [n |-> A.n, e |-> [ij \in DOMAIN A.e |-> NRot(A.e[ij], r)]]

\* the element function a matrix function passes to its components function
func_of(name) ==
    IF name = "H_z_matrix" THEN "H_z_elements"
    ELSE IF name = "H_pm_matrix" THEN "H_pm_elements"
    ELSE IF name = "H_ppmm_matrix" THEN "H_ppmm_elements"
    ELSE "H_pmz_elements"

\* func(Nx, Ny, kx, ky, i, l) as the two components functions call it: val
\* is the row as a dict from column to entry
elements(func, P, K, i, l) ==
    IF func = "H_z_elements"
    THEN CHOOSE result \in {[r EXCEPT !.val = IF r.exc = "" THEN (i :> r.val) ELSE <<>>]
                            : r \in {H_z_elements(P, K, i, l)}} : TRUE
    ELSE offdiag_elements(func, P, K, i, l)

\* the loops of _diag_components and _offdiag_components from row i on
RECURSIVE components_loop(_, _, _, _, _, _)
components_loop(func, S0, K, l, n, i) ==
    CHOOSE result \in {
        IF i >= n \/ S.exc # "" THEN S
        ELSE CHOOSE result2 \in {
                components_loop(func,
                    [P |-> r.P,
                     \* sparse.csc_matrix refuses an index outside the shape
                     exc |-> IF r.exc = "" /\ \E j \in DOMAIN r.val : j \notin 0..(n - 1)
                             THEN "ValueError" ELSE r.exc,
                     val |-> IF r.exc = ""
                             THEN [S.val EXCEPT !.e = [ij \in DOMAIN S.val.e |->
                                      IF ij[1] = i /\ ij[2] \in DOMAIN r.val
                                      THEN r.val[ij[2]] ELSE S.val.e[ij]]]
                             ELSE S.val],
                    K, l, n, i + 1)
                : r \in {elements(func, S.P, K, i, l)}} : TRUE
        : S \in {S0}} : TRUE

\* _diag_components and _offdiag_components: n is
\* len(_bloch_states(Nx, Ny, kx, ky)), and BlochFuncSet.__len__ is
\* self.nonzero
components(P, K, l, func) ==
    CHOOSE result \in {
        components_loop(func,
            [P |-> r.P, exc |-> "",
             val |-> MZero(r.P.heap[r.val].nonzero, RootOrder(K[1], K[2]))],
            K, l, r.P.heap[r.val].nonzero, 0)
        : r \in {bloch_states(P, K[1], K[2], K[3], K[4])}} : TRUE

\* the bodies of H_z_matrix, H_pm_matrix, H_ppmm_matrix and H_pmz_matrix;
\* name says which, and the last two set l = 1 themselves.  H_pmz_matrix
\* multiplies by 1j, which is w^(M/4)
matrix_function(name, P, K, l) ==
    CHOOSE result \in {
        IF name = "H_pmz_matrix" /\ r.exc = ""
        THEN [r EXCEPT !.val = MRot(r.val, RootOrder(K[1], K[2]) \div 4)]
        ELSE r
        : r \in {components(P, K,
                            IF name \in {"H_ppmm_matrix", "H_pmz_matrix"} THEN 1 ELSE l,
                            func_of(name))}} : TRUE

(***************************************************************************)
(* utils.cache.matcache is not part of the sources at hand; from the       *)
(* specification it is a memoizing cache keyed by the function and its     *)
(* arguments that lives as long as the process.  A call that raises stores *)
(* nothing.                                                                *)
(***************************************************************************)
matcache(name, P, K, l) ==
    IF <<name, K, l>> \in DOMAIN P.matcache
    THEN [P |-> P, exc |-> "", val |-> P.matcache[<<name, K, l>>]]
    ELSE CHOOSE result \in {
            IF r.exc = "" THEN [r EXCEPT !.P.matcache = (<<name, K, l>> :> r.val) @@ @]
            ELSE r
            : r \in {matrix_function(name, P, K, l)}} : TRUE

\* the couplings of one call
Couplings(J_pm, J_z, J_ppmm, J_pmz, J2, J3) ==
    [J_pm |-> J_pm, J_z |-> J_z, J_ppmm |-> J_ppmm, J_pmz |-> J_pmz, J2 |-> J2, J3 |-> J3]

\* the calls with the second and third neighbour matrices built whatever
\* J2 and J3 are
matrix_calls_all(J) ==
    <<<<"H_z_matrix", 1>>, <<"H_pm_matrix", 1>>,
      <<"H_ppmm_matrix", 0>>, <<"H_pmz_matrix", 0>>,
      <<"H_z_matrix", 2>>, <<"H_pm_matrix", 2>>,
      <<"H_z_matrix", 3>>, <<"H_pm_matrix", 3>>>>

\* the calls of the matrix functions that lines 1044-1056 of
\* hamiltonian_consv_k make, in order, each <<name, l>> (l = 0 where the
\* function takes none).  Line 1053 divides J_z by J_pm: with J_pm = 0 it
\* raises and lines 1055-1056 are not reached
matrix_calls(J) ==
    <<<<"H_z_matrix", 1>>, <<"H_pm_matrix", 1>>,
      <<"H_ppmm_matrix", 0>>, <<"H_pmz_matrix", 0>>>>
    \o (IF J.J2 # 0 THEN <<<<"H_z_matrix", 2>>, <<"H_pm_matrix", 2>>>> ELSE <<>>)
    \o (IF J.J3 # 0 /\ ~(J.J2 # 0 /\ J.J_pm = 0)
        THEN <<<<"H_z_matrix", 3>>, <<"H_pm_matrix", 3>>>> ELSE <<>>)

\* the calls from the k-th on; val maps each call made to its matrix
RECURSIVE matrix_loop(_, _, _, _)
matrix_loop(S0, K, cs, k) ==
    CHOOSE result \in {
        IF k > Len(cs) \/ S.exc # "" THEN S
        ELSE CHOOSE result2 \in {
                matrix_loop([P |-> r.P, exc |-> r.exc,
                             val |-> IF r.exc = "" THEN (cs[k] :> r.val) @@ S.val
                                     ELSE S.val],
                            K, cs, k + 1)
                : r \in {matcache(cs[k][1], S.P, K, cs[k][2])}} : TRUE
        : S \in {S0}} : TRUE

\* line 1048 of hamiltonian_consv_k
nearest_neighbor_terms(J, H) ==
    MAdd(MAdd(MScale(H[<<"H_pm_matrix", 1>>], J.J_pm, 1),
              MScale(H[<<"H_z_matrix", 1>>], J.J_z, 1)),
         MAdd(MScale(H[<<"H_ppmm_matrix", 0>>], J.J_ppmm, 1),
              MScale(H[<<"H_pmz_matrix", 0>>], J.J_pmz, 1)))

\* lines 1049-1053 and 1054-1057 of hamiltonian_consv_k, for l = 2 with
\* Jl = J2 and for l = 3 with Jl = J3, where J_pm is not 0
neighbor_terms(K, J, Jl, H, l) ==
    IF Jl = 0 THEN MZero(H[<<"H_z_matrix", 1>>].n, RootOrder(K[1], K[2]))
    ELSE MScale(MAdd(H[<<"H_pm_matrix", l>>],
                     MScale(H[<<"H_z_matrix", l>>],
                            J.J_z * (IF J.J_pm < 0 THEN -1 ELSE 1), Abs(J.J_pm))),
                Jl, 1)

\* _find_leading_state.cache_clear()
cache_clear(P) == [P EXCEPT !.memo = <<>>]

\* an exception leaves hamiltonian_consv_k: nothing is returned
raised(P, exc) == [P |-> Collect(P), exc |-> exc, val |-> MZero(0, 1)]

\* hamiltonian_consv_k(Nx, Ny, kx, ky, J_pm, J_z, J_ppmm, J_pmz, J2, J3)
hamiltonian_consv_k(P, K, J) ==
    CHOOSE result \in {
        IF S.exc # "" THEN raised(S.P, S.exc)
        ELSE IF (J.J2 # 0 \/ J.J3 # 0) /\ J.J_pm = 0     \* J_z / J_pm
        THEN raised(S.P, "ZeroDivisionError")
        ELSE [P |-> Collect(cache_clear(S.P)), exc |-> "",
              val |-> MAdd(nearest_neighbor_terms(J, S.val),
                           MAdd(neighbor_terms(K, J, J.J2, S.val, 2),
                                neighbor_terms(K, J, J.J3, S.val, 3)))]
        : S \in {matrix_loop([P |-> P, exc |-> "", val |-> <<>>], K, matrix_calls(J), 1)}}
        : TRUE

(***************************************************************************)
(* hamiltonian_dp sums the matrices of hamiltonian_dp_components, which    *)
(* come from operators that are not part of the sources at hand.  Its      *)
(* value is kept as the linear combination it forms: the coefficient       *)
(* <<numerator, denominator>> of each component that enters the sum.       *)
(***************************************************************************)
hamiltonian_dp(Nx, Ny, J) ==
    LET nearest == [c \in {"H_pm1", "H_z1", "H_ppmm", "H_pmz"} |->
                      CASE c = "H_pm1" -> <<J.J_pm, 1>>
                        [] c = "H_z1" -> <<J.J_z, 1>>
                        [] c = "H_ppmm" -> <<J.J_ppmm, 1>>
                        [] c = "H_pmz" -> <<J.J_pmz, 1>>]
        second == [c \in IF J.J2 = 0 THEN {} ELSE {"H_pm2", "H_z2"} |->
                      IF c = "H_pm2" THEN <<J.J2, 1>> ELSE <<J.J2 * J.J_z, J.J_pm>>]
        third == [c \in IF J.J3 = 0 THEN {} ELSE {"H_pm3", "H_z3"} |->
                      IF c = "H_pm3" THEN <<J.J3, 1>> ELSE <<J.J3 * J.J_z, J.J_pm>>]
    IN  IF (J.J2 # 0 \/ J.J3 # 0) /\ J.J_pm = 0     \* J_z / J_pm
        THEN [exc |-> "ZeroDivisionError", val |-> [c \in {} |-> <<0, 1>>]]
        ELSE [exc |-> "", val |-> nearest @@ second @@ third]

(***************************************************************************)
(* State.                                                                  *)
(***************************************************************************)
VARIABLES
    codec,  \* a client applying translate_x / translate_y to a product state
    prog,   \* the state the module keeps between calls
    call,   \* the latest call into the module and what came of it
    calls   \* the number of calls made so far

vars == <<codec, prog, call, calls>>

\* the couplings a client passes: every term, J_pm = 0 without and with a
\* further-neighbour coupling, and second neighbours only
AllTerms == Couplings(1, 2, 1, 1, 1, 1)
NoExchange == Couplings(0, 1, 1, 1, 0, 0)
ThirdNoExchange == Couplings(0, 1, 0, 0, 0, 1)
SecondExchange == Couplings(1, 1, 0, 0, 1, 0)
NoCouplings == Couplings(0, 0, 0, 0, 0, 0)
CouplingChoices == {AllTerms, NoExchange, ThirdNoExchange}

NoCodec == [Nx |-> 1, Ny |-> 1, dec |-> 0, cur |-> 0, nx |-> 0, ny |-> 0]

\* a call: the function, its arguments (those it does not take are 0), the
\* exception that escaped it ("" for none) and its value
Call(fn, K, J, i, l, exc, val) ==
    [fn |-> fn, K |-> K, J |-> J, i |-> i, l |-> l, exc |-> exc, val |-> val]
NoCall == Call("", <<0, 0, 0, 0>>, NoCouplings, 0, 0, "", 0)

(***************************************************************************)
(* The codec specification: a client picks a lattice and a product state   *)
(* and applies the two translations to it, counting the applications.      *)
(***************************************************************************)
InitCodec ==
    /\ \E L \in Lattices : \E dec \in 0..(2^(L[1] * L[2]) - 1) :
        codec = [Nx |-> L[1], Ny |-> L[2], dec |-> dec, cur |-> dec,
                 nx |-> 0, ny |-> 0]
    /\ prog = EmptyProgram
    /\ call = NoCall
    /\ calls = 0

TranslateX ==
    /\ codec.nx < codec.Nx
    /\ codec' = [codec EXCEPT !.cur = translate_x(codec.cur, codec.Nx, codec.Ny),
                              !.nx = @ + 1]
    /\ UNCHANGED <<prog, call, calls>>

TranslateY ==
    /\ codec.ny < codec.Ny
    /\ codec' = [codec EXCEPT !.cur = translate_y(codec.cur, codec.Nx, codec.Ny),
                              !.ny = @ + 1]
    /\ UNCHANGED <<prog, call, calls>>

NextCodec == TranslateX \/ TranslateY

SpecCodec == InitCodec /\ [][NextCodec]_vars

(***************************************************************************)
(* A process imports the module: nothing is cached yet.                    *)
(***************************************************************************)
Init ==
    /\ codec = NoCodec
    /\ prog = EmptyProgram
    /\ call = NoCall
    /\ calls = 0

(***************************************************************************)
(* The basis specification: the process calls _bloch_states and            *)
(* H_z_elements, each call on a lattice and a sector of the client's       *)
(* choice.                                                                 *)
(***************************************************************************)
\* the largest number of calls of one process
MaxBasisCalls == 1

BlochStates(K) ==
    \E r \in {bloch_states(prog, K[1], K[2], K[3], K[4])} :
        /\ prog' = Collect(r.P)
        /\ call' = Call("_bloch_states", K, NoCouplings, 0, 0, "", r.val)
        /\ calls' = calls + 1
        /\ UNCHANGED codec

HzElements(K, i, l) ==
    \E r \in {H_z_elements(prog, K, i, l)} :
        /\ prog' = Collect(r.P)
        /\ call' = Call("H_z_elements", K, NoCouplings, i, l, r.exc, r.val)
        /\ calls' = calls + 1
        /\ UNCHANGED codec

NextBasis ==
    /\ calls < MaxBasisCalls
    /\ \E L \in Lattices : \E k \in Sectors(L[1], L[2]) :
        \/ BlochStates(<<L[1], L[2], k[1], k[2]>>)
        \/ \E i \in 0..(Len(zero_momentum_states_of[L].objs) - 1) : \E l \in 1..3 :
                HzElements(<<L[1], L[2], k[1], k[2]>>, i, l)

SpecBasis == Init /\ [][NextBasis]_vars

(***************************************************************************)
(* The assembly specification: the process calls hamiltonian_consv_k, each *)
(* call on a lattice, a sector and couplings of the client's choice.  A    *)
(* call that raises leaves the process running.                            *)
(***************************************************************************)
\* the largest number of calls of one process
MaxCalls == 2

HamiltonianConsvK(K, J) ==
    \E r \in {hamiltonian_consv_k(prog, K, J)} :
        /\ prog' = r.P
        /\ call' = Call("hamiltonian_consv_k", K, J, 0, 0, r.exc, r.val)
        /\ calls' = calls + 1
        /\ UNCHANGED codec

Next ==
    /\ calls < MaxCalls
    /\ \E L \in Lattices : \E k \in Sectors(L[1], L[2]) : \E J \in CouplingChoices :
            HamiltonianConsvK(<<L[1], L[2], k[1], k[2]>>, J)

Spec == Init /\ [][Next]_vars

(***************************************************************************)
(* The same process followed through more calls: on the chain of four      *)
(* sites in its sectors kx = 0 and kx = 1 and on the single site, with the *)
(* two couplings that differ in which further neighbours they couple.      *)
(***************************************************************************)
MaxSeqCalls == 4
SeqSectors == {<<4, 1, 0, 0>>, <<4, 1, 1, 0>>, <<1, 1, 0, 0>>}
SeqCouplings == {ThirdNoExchange, SecondExchange}

NextSeq ==
    /\ calls < MaxSeqCalls
    /\ \E K \in SeqSectors : \E J \in SeqCouplings : HamiltonianConsvK(K, J)

SpecSeq == Init /\ [][NextSeq]_vars

(***************************************************************************)
(* The properties of the specification, each under the specification named *)
(* with it.                                                                *)
(***************************************************************************)
(* The element specification: the process makes one call of                *)
(* _gen_ind_dec_conv_dicts, of _find_leading_state or of an off-diagonal   *)
(* element function, on a lattice, a sector and arguments of the client's  *)
(* choice.                                                                 *)
(***************************************************************************)
MaxElemCalls == 1

GenIndDecConvDicts(K) ==
    \E r \in {gen_ind_dec_conv_dicts(prog, K[1], K[2], K[3], K[4])} :
        /\ prog' = Collect(r.P)
        /\ call' = Call("_gen_ind_dec_conv_dicts", K, NoCouplings, 0, 0, "", r.val)
        /\ calls' = calls + 1
        /\ UNCHANGED codec

FindLeadingState(K, dec) ==
    \E r \in {find_leading_state(prog, K[1], K[2], K[3], K[4], dec)} :
        /\ prog' = Collect(r.P)
        /\ call' = Call("_find_leading_state", K, NoCouplings, dec, 0, r.exc, r.val)
        /\ calls' = calls + 1
        /\ UNCHANGED codec

OffdiagElements(func, K, i, l) ==
    \E r \in {offdiag_elements(func, prog, K, i, l)} :
        /\ prog' = Collect(r.P)
        /\ call' = Call(func, K, NoCouplings, i, l, r.exc, r.val)
        /\ calls' = calls + 1
        /\ UNCHANGED codec

NextElems ==
    /\ calls < MaxElemCalls
    /\ \E L \in Lattices : \E k \in Sectors(L[1], L[2]) :
        \/ GenIndDecConvDicts(<<L[1], L[2], k[1], k[2]>>)
        \/ \E dec \in 0..(2^(L[1] * L[2]) - 1) :
                FindLeadingState(<<L[1], L[2], k[1], k[2]>>, dec)
        \/ \E i \in 0..(Len(zero_momentum_states_of[L].objs) - 1) :
            \/ \E l \in 1..3 : OffdiagElements("H_pm_elements", <<L[1], L[2], k[1], k[2]>>, i, l)
            \/ OffdiagElements("H_ppmm_elements", <<L[1], L[2], k[1], k[2]>>, i, 1)
            \/ OffdiagElements("H_pmz_elements", <<L[1], L[2], k[1], k[2]>>, i, 1)

SpecElems == Init /\ [][NextElems]_vars

(***************************************************************************)
(* The couplings specification: the process makes one call of              *)
(* hamiltonian_consv_k or of hamiltonian_dp, with each of J_pm, J2 and J3  *)
(* zero or not.                                                            *)
(***************************************************************************)
MaxCouplingCalls == 1
CouplingSigns == {Couplings(a, 1, 1, 1, b, c) : a, b, c \in {0, 1}}

HamiltonianDp(L, J) ==
    \E r \in {hamiltonian_dp(L[1], L[2], J)} :
        /\ call' = Call("hamiltonian_dp", <<L[1], L[2], 0, 0>>, J, 0, 0, r.exc, r.val)
        /\ calls' = calls + 1
        /\ UNCHANGED <<codec, prog>>

NextCouplings ==
    /\ calls < MaxCouplingCalls
    /\ \E L \in Lattices : \E J \in CouplingSigns :
        \/ \E k \in Sectors(L[1], L[2]) : HamiltonianConsvK(<<L[1], L[2], k[1], k[2]>>, J)
        \/ HamiltonianDp(L, J)

SpecCouplings == Init /\ [][NextCouplings]_vars

(***************************************************************************)
(* The sites specification: the process makes one call of a directional    *)
(* hop of a SiteVector, of _generate_bonds, or of yhop or                  *)
(* neighboring_sites of a SemiPeriodicBCSiteVector.  The K of such a call  *)
(* is <<Nx, Ny, x, y>> with (x, y) the site, and its i the stride.         *)
(***************************************************************************)
MaxSiteCalls == 1
Sites(Nx, Ny) == (0..(Nx - 1)) \X (0..(Ny - 1))
HopFuncs == {"a1", "a2", "a3", "b1", "b2", "b3"}
Strides == {-2, -1, 1, 2}

Hop(func, L, v, stride) ==
    \E site \in {hop(func, v, stride, L[1], L[2])} :
        /\ call' = Call(func, <<L[1], L[2], v[1], v[2]>>, NoCouplings, stride, 0,
                        IF site = SameSite THEN "SameSite" ELSE "", site)
        /\ calls' = calls + 1
        /\ UNCHANGED <<codec, prog>>

GenerateBonds(L) ==
    /\ call' = Call("_generate_bonds", <<L[1], L[2], 0, 0>>, NoCouplings, 0, 0, "",
                    [l \in 1..3 |-> generate_bonds(L[1], L[2], l)])
    /\ calls' = calls + 1
    /\ UNCHANGED <<codec, prog>>

SemiYhop(L, v, stride) ==
    \E site \in {semi_yhop(v, stride, L[1], L[2])} :
        /\ call' = Call("yhop", <<L[1], L[2], v[1], v[2]>>, NoCouplings, stride, 0,
                        IF site = OutOfBounds THEN "OutOfBoundsError" ELSE "", site)
        /\ calls' = calls + 1
        /\ UNCHANGED <<codec, prog>>

SemiNeighboringSites(L, v) ==
    /\ call' = Call("neighboring_sites", <<L[1], L[2], v[1], v[2]>>, NoCouplings, 0, 0, "",
                    semi_neighboring_sites(v, L[1], L[2]))
    /\ calls' = calls + 1
    /\ UNCHANGED <<codec, prog>>

NextSites ==
    /\ calls < MaxSiteCalls
    /\ \E L \in Lattices :
        \/ GenerateBonds(L)
        \/ \E v \in Sites(L[1], L[2]) :
            \/ \E func \in HopFuncs : \E stride \in Strides : Hop(func, L, v, stride)
            \/ \E stride \in Strides : SemiYhop(L, v, stride)
            \/ SemiNeighboringSites(L, v)

SpecSites == Init /\ [][NextSites]_vars

(***************************************************************************)
(* The sharing specification: the process makes several calls, of          *)
(* _bloch_states, _find_leading_state, the element functions and two of    *)
(* the matrix functions, over two sectors of the chain of three sites.     *)
(***************************************************************************)
MaxSharedCalls == 3
SharedSectors == {<<3, 1, 0, 0>>, <<3, 1, 1, 0>>}
SharedIndices == {0, 1}

MatrixFunction(name, K, l) ==
    \E r \in {matcache(name, prog, K, l)} :
        /\ prog' = Collect(r.P)
        /\ call' = Call(name, K, NoCouplings, 0, l, r.exc, r.val)
        /\ calls' = calls + 1
        /\ UNCHANGED codec

NextShared ==
    /\ calls < MaxSharedCalls
    /\ \E K \in SharedSectors :
        \/ BlochStates(K)
        \/ \E dec \in SharedIndices : FindLeadingState(K, dec)
        \/ \E i \in SharedIndices :
            \/ HzElements(K, i, 1)
            \/ \E func \in {"H_pm_elements", "H_ppmm_elements", "H_pmz_elements"} :
                    OffdiagElements(func, K, i, 1)
        \/ \E name \in {"H_z_matrix", "H_pmz_matrix"} : MatrixFunction(name, K, 1)

SpecShared == Init /\ [][NextShared]_vars

(***************************************************************************)
\* C1 (SpecBasis): after zero_momentum_states(Nx, Ny) every dec in
\* [0, 2^(Nx*Ny)) is a key of the decs mapping of exactly one orbit, and the
\* set's hashtable is total over [0, 2^(Nx*Ny)) and maps dec to that orbit.
C1_OrbitsPartition ==
    \A c \in DOMAIN prog.zms :
        LET N == prog.zms[c].key[1] * prog.zms[c].key[2]
            set == prog.heap[prog.zms[c].val]
        IN  /\ DOMAIN set.hashtable = 0..(2^N - 1)
            /\ \A dec \in 0..(2^N - 1) :
                /\ Cardinality({i \in 1..Len(set.objs) :
                                   dec \in DOMAIN set.objs[i].decs}) = 1
                /\ dec \in DOMAIN set.objs[set.hashtable[dec]].decs

\* zero_momentum_states(2, 2) has been called, and built an orbit of more
\* than one product state
C1_Witness ==
    /\ prog.zms # <<>>
    /\ prog.zms[1].key = <<2, 2>>
    /\ \E i \in 1..Len(prog.heap[prog.zms[1].val].objs) :
            Cardinality(DOMAIN prog.heap[prog.zms[1].val].objs[i].decs) > 1

\* C2 (SpecCodec): translate_x applied Nx times returns dec, translate_y
\* applied Ny times returns dec, and every application yields a value in
\* [0, 2^(Nx*Ny)).
C2_TranslationsCycle ==
    /\ codec.cur \in 0..(2^(codec.Nx * codec.Ny) - 1)
    /\ (codec.nx = codec.Nx /\ codec.ny = 0) => codec.cur = codec.dec
    /\ (codec.nx = 0 /\ codec.ny = codec.Ny) => codec.cur = codec.dec

\* on the 2 x 2 lattice the state with one spin up has been moved along x
\* twice, and along x once to another state
C2_Witness ==
    /\ codec.Nx = 2 /\ codec.Ny = 2 /\ codec.dec = 1
    /\ codec.nx = 2 /\ codec.ny = 0
    /\ translate_x(codec.dec, 2, 2) # codec.dec

\* C3 (SpecSeq): the matrix hamiltonian_consv_k returns is Hermitian: the
\* entry at (i, j) is the complex conjugate of the entry at (j, i).
C3_Hermitian ==
    (call.fn = "hamiltonian_consv_k" /\ call.exc = "") =>
        \A ij \in DOMAIN call.val.e :
            call.val.e[ij] = NConj(call.val.e[<<ij[2], ij[1]>>])

\* C4 (SpecSeq): the matrix hamiltonian_consv_k returns for given arguments
\* is the same no matter which calls preceded it: it is the matrix a process
\* that made no earlier call gets for these arguments.
C4_SameMatrixAfterAnyCalls ==
    (call.fn = "hamiltonian_consv_k" /\ call.exc = "") =>
        call.val = hamiltonian_consv_k(EmptyProgram, call.K, call.J).val

\* C5 (SpecSeq): at the start of every hamiltonian_consv_k call the memo of
\* _find_leading_state holds no entry left behind by an earlier call.
C5_MemoEmptyAtCallStart ==
    [][calls' = calls + 1 => DOMAIN prog.memo = {}]_vars

\* C6 (SpecBasis): over the sectors (kx, ky) of the Brillouin zone of a
\* lattice, the numbers of orbits _bloch_states retains sum to 2^(Nx*Ny);
\* equivalently each orbit is retained in exactly as many sectors as it has
\* distinct product states.  The set _bloch_states returned carries the
\* count of its own sector.
C6_BasisSizesSum ==
    call.fn = "_bloch_states" =>
        LET Nx == call.K[1]
            Ny == call.K[2]
            set == prog.heap[call.val]
            scored == [k \in Sectors(Nx, Ny) |-> score(set, Nx, Ny, k[1], k[2])]
        IN  /\ set = scored[<<call.K[3], call.K[4]>>]
            /\ SumFn([k \in Sectors(Nx, Ny) |-> scored[k].nonzero]) = 2^(Nx * Ny)
            /\ \A i \in 1..Len(set.objs) :
                    Cardinality({k \in Sectors(Nx, Ny) : scored[k].objs[i].norm > 0})
                        = Cardinality(DOMAIN set.objs[i].decs)

\* _bloch_states has scored the 2 x 2 lattice in sector (1, 1), where it
\* drops some orbits and keeps others
C6_Witness ==
    /\ call.fn = "_bloch_states"
    /\ call.K = <<2, 2, 1, 1>>
    /\ prog.heap[call.val].nonzero > 0
    /\ prog.heap[call.val].nonzero < Len(prog.heap[call.val].objs)

\* C7 (SpecBasis): in sector (0, 0) the orbits of the fully aligned states
\* dec = 0 and dec = 2^(Nx*Ny) - 1 have a norm above the tolerance, so they
\* are retained, and no orbit has a larger norm; on the 2 x 2 lattice the
\* orbits partition exactly 16 product states.
C7_AlignedStatesRetained ==
    (call.fn = "_bloch_states" /\ call.K[3] = 0 /\ call.K[4] = 0) =>
        LET N == call.K[1] * call.K[2]
            set == prog.heap[call.val]
        IN  /\ \A dec \in {0, 2^N - 1} :
                    /\ set.objs[set.hashtable[dec]].norm > 0
                    /\ \E k \in 1..Len(set.data) : set.data[k] = set.hashtable[dec]
                    /\ \A i \in 1..Len(set.objs) :
                            set.objs[i].norm <= set.objs[set.hashtable[dec]].norm
            /\ (call.K[1] = 2 /\ call.K[2] = 2) =>
                    /\ UNION {DOMAIN set.objs[i].decs : i \in 1..Len(set.objs)} = 0..15
                    /\ SumFn([i \in 1..Len(set.objs) |->
                                Cardinality(DOMAIN set.objs[i].decs)]) = 16

\* _bloch_states has scored the 2 x 2 lattice in sector (0, 0), and some
\* orbit has a smaller norm than the orbit of dec = 0
C7_Witness ==
    /\ call.fn = "_bloch_states"
    /\ call.K = <<2, 2, 0, 0>>
    /\ \E i \in 1..Len(prog.heap[call.val].objs) :
            /\ prog.heap[call.val].objs[i].norm > 0
            /\ prog.heap[call.val].objs[i].norm
                   < prog.heap[call.val].objs[prog.heap[call.val].hashtable[0]].norm

\* C8 (Spec): under non-degenerate couplings (J_pm # 0, or J2 = 0 and
\* J3 = 0) no exception escapes hamiltonian_consv_k on any lattice and
\* sector: the hops that raise SameSite leave no trace in the bonds, a
\* NotFoundError of _find_leading_state is absorbed in the element function,
\* and no KeyError comes from the leader-to-index map.
C8_NoExceptionEscapes ==
    (/\ call.fn = "hamiltonian_consv_k"
     /\ (call.J.J_pm # 0 \/ (call.J.J2 = 0 /\ call.J.J3 = 0))) =>
        /\ call.exc = ""
        /\ \A l \in 1..3 : \A b \in generate_bonds(call.K[1], call.K[2], l) :
                b[1] # SameSite /\ b[2] # SameSite /\ b[1] # b[2]

\* hamiltonian_consv_k has returned with every coupling set on the 2 x 2
\* lattice in sector (1, 1), where the basis lacks some orbits, so that
\* lookups of connected states raise NotFoundError, and where hops of the
\* sites come back to the site they left
C8_Witness ==
    /\ call.fn = "hamiltonian_consv_k" /\ call.exc = ""
    /\ call.K = <<2, 2, 1, 1>> /\ call.J = AllTerms
    /\ call.val.n < Len(zero_momentum_states_of[<<2, 2>>].objs)
    /\ \E f \in {"a1", "a2", "a3", "b1", "b2", "b3"} : \E st \in {1, 2} :
            hop(f, <<0, 0>>, st, 2, 2) = SameSite

\* C9 (SpecBasis): for a retained basis index i and a range l, H_z_elements
\* returns 0.25 * (parallel pairs - antiparallel pairs) over the range-l
\* bonds, counted on any product state of orbit i, and this is the entry of
\* the brute-force Ising diagonal (the sum over the bonds of Sz_a * Sz_b,
\* Sz = +-1/2) at every product state of the orbit.
C9_IsingDiagonal ==
    (call.fn = "H_z_elements" /\ call.exc = "") =>
        LET Nx == call.K[1]
            Ny == call.K[2]
            bonds == generate_bonds(Nx, Ny, call.l)
            orbit == deref(prog, prog.gen[1].val.ind_to_dec[call.i])
            up(dec, site) == bit_set(dec, 2^lattice_index(site, Nx))
            parallel(dec) == {b \in bonds : up(dec, b[1]) = up(dec, b[2])}
        IN  /\ prog.gen[1].key = call.K
            /\ orbit.norm > 0
            /\ \A dec \in DOMAIN orbit.decs :
                /\ call.val = NRat(RootOrder(Nx, Ny),
                                   Cardinality(parallel(dec))
                                       - Cardinality(bonds \ parallel(dec)), 4)
                /\ call.val = NRat(RootOrder(Nx, Ny), gen_z_ops(Nx, Ny, call.l, dec), 4)

\* H_z_elements has returned the nearest-neighbour element of an orbit of
\* the 2 x 2 lattice that holds several product states with parallel and
\* antiparallel pairs
C9_Witness ==
    /\ call.fn = "H_z_elements" /\ call.exc = ""
    /\ call.K = <<2, 2, 0, 0>> /\ call.l = 1
    /\ LET orbit == deref(prog, prog.gen[1].val.ind_to_dec[call.i])
       IN  /\ Cardinality(DOMAIN orbit.decs) > 1
           /\ \E b1, b2 \in generate_bonds(2, 2, 1) :
                /\ bit_set(orbit.lead, 2^lattice_index(b1[1], 2))
                       = bit_set(orbit.lead, 2^lattice_index(b1[2], 2))
                /\ bit_set(orbit.lead, 2^lattice_index(b2[1], 2))
                       # bit_set(orbit.lead, 2^lattice_index(b2[2], 2))

\* C10 as stated (SpecBasis): the norm _norm_coeff computes for an orbit in
\* a sector is the magnitude of one sum, the phase factor summed over all
\* recorded positions of every distinct state of the orbit.
C10_NormIsOneSum ==
    call.fn = "_bloch_states" =>
        \A i \in 1..Len(prog.heap[call.val].objs) :
            prog.heap[call.val].objs[i].norm
                = CInt(norm_square_onesum(prog.heap[call.val].objs[i],
                                          call.K[1], call.K[2], call.K[3], call.K[4]))

\* C10 (SpecBasis): the norm _norm_coeff computes for an orbit in a sector
\* is the Euclidean norm of the sums of the distinct states of the orbit,
\* each the phase factor exp(2*pi*i*kx*col/Nx) * exp(2*pi*i*ky*row/Ny)
\* summed over the recorded (row, col) positions of that state; the orbit is
\* retained exactly when the norm exceeds the tolerance.
C10_NormIsEuclidean ==
    /\ call.fn = "_bloch_states" =>
        LET Nx == call.K[1]
            Ny == call.K[2]
            M == RootOrder(Nx, Ny)
            set == prog.heap[call.val]
            factor(pos) == CMono(M, call.K[3] * pos[2] * (M \div Nx)
                                      + call.K[4] * pos[1] * (M \div Ny))
            sum(locs) == CSumFn(M, [t \in 1..Len(locs) |-> factor(locs[t])])
            square(c) == CMul(c, CConj(c))
        IN  /\ \A i \in 1..Len(set.objs) :
                    set.objs[i].norm
                        = CInt(CNormal(CSumFn(M, [d \in DOMAIN set.objs[i].decs |->
                                                    square(sum(set.objs[i].decs[d]))])))
            /\ set.nonzero = Cardinality({i \in 1..Len(set.objs) : set.objs[i].norm > 0})
    /\ (call.fn = "H_z_elements" /\ call.exc \in {"", "KeyError"}) =>
        LET set == prog.heap[prog.bloch[1].val]
            ind_to_dec == prog.gen[1].val.ind_to_dec
        IN  {ind_to_dec[ind] : ind \in DOMAIN ind_to_dec}
                = {<<prog.bloch[1].val, i>> : i \in {j \in 1..Len(set.objs) : set.objs[j].norm > 0}}

\* _bloch_states has scored the 2 x 1 lattice in sector (1, 0): the orbit
\* of the states 01 and 10 has the norm sqrt(2) and is retained, while the
\* one sum over its positions vanishes
C10_Witness ==
    /\ call.fn = "_bloch_states"
    /\ call.K = <<2, 1, 1, 0>>
    /\ \E i \in 1..Len(prog.heap[call.val].objs) :
            /\ DOMAIN prog.heap[call.val].objs[i].decs = {1, 2}
            /\ prog.heap[call.val].objs[i].norm = 2
            /\ CInt(norm_square_onesum(prog.heap[call.val].objs[i], 2, 1, 1, 0)) = 0

\* C11 (SpecElems): the reduced basis of a sector indexes exactly the orbits
\* whose norm in the sector is above the tolerance, with the indices 0..M-1
\* in ascending order of lead; its two maps are mutually inverse; M is
\* len(_bloch_states(...)) and the shape of each of the four term matrices;
\* every column index an off-diagonal element function emits lies in [0, M).
C11_ReducedBasis ==
    /\ call.fn = "_gen_ind_dec_conv_dicts" =>
        LET L == <<call.K[1], call.K[2]>>
            k == <<call.K[3], call.K[4]>>
            ind_to_dec == call.val.ind_to_dec
            dec_to_ind == call.val.dec_to_ind
            M == Cardinality(DOMAIN ind_to_dec)
            set == prog.heap[prog.zms[1].val]
            states == bloch_states(prog, L[1], L[2], k[1], k[2])
        IN  /\ DOMAIN ind_to_dec = 0..(M - 1)
            /\ {ind_to_dec[i] : i \in 0..(M - 1)}
                    = {<<prog.zms[1].val, j>> : j \in {j \in 1..Len(set.objs) :
                                                        norm_coeff_of[L][k][j] > 0}}
            /\ \A i, j \in 0..(M - 1) :
                    i < j => deref(prog, ind_to_dec[i]).lead < deref(prog, ind_to_dec[j]).lead
            /\ DOMAIN dec_to_ind = {deref(prog, ind_to_dec[i]).lead : i \in 0..(M - 1)}
            /\ \A i \in 0..(M - 1) : dec_to_ind[deref(prog, ind_to_dec[i]).lead] = i
            /\ M = states.P.heap[states.val].nonzero
            /\ \A name \in {"H_z_matrix", "H_pm_matrix", "H_ppmm_matrix", "H_pmz_matrix"} :
                    \E H \in {matrix_function(name, prog, call.K, 1)} :
                        H.exc = "" /\ H.val.n = M
    /\ (call.fn \in {"H_pm_elements", "H_ppmm_elements", "H_pmz_elements"}
            /\ call.exc = "") =>
        DOMAIN call.val \subseteq 0..(Cardinality(DOMAIN prog.gen[1].val.ind_to_dec) - 1)

\* _gen_ind_dec_conv_dicts has built the basis of sector (1, 1) of the
\* 2 x 2 lattice, which holds several orbits and lacks others
C11_Witness ==
    /\ call.fn = "_gen_ind_dec_conv_dicts"
    /\ call.K = <<2, 2, 1, 1>>
    /\ Cardinality(DOMAIN call.val.ind_to_dec) > 1
    /\ Cardinality(DOMAIN call.val.ind_to_dec) < Len(prog.heap[prog.zms[1].val].objs)

\* C12 (SpecBasis): in the set zero_momentum_states builds, the lead of
\* each orbit is the smallest of the product states of the orbit, and the
\* orbits are stored in strictly ascending order of lead.
C12_LeadsSmallestAscending ==
    \A c \in DOMAIN prog.zms :
        LET set == prog.heap[prog.zms[c].val]
        IN  /\ \A i \in 1..Len(set.objs) :
                    /\ set.objs[i].lead \in DOMAIN set.objs[i].decs
                    /\ \A d \in DOMAIN set.objs[i].decs : set.objs[i].lead <= d
            /\ {set.data[a] : a \in 1..Len(set.data)} = 1..Len(set.objs)
            /\ \A a, b \in 1..Len(set.data) :
                    a < b => set.objs[set.data[a]].lead < set.objs[set.data[b]].lead

\* zero_momentum_states(2, 2) has built several orbits, one of them with
\* several product states
C12_Witness ==
    /\ prog.zms # <<>>
    /\ prog.zms[1].key = <<2, 2>>
    /\ Len(prog.heap[prog.zms[1].val].data) > 2
    /\ \E a \in 1..Len(prog.heap[prog.zms[1].val].data) :
            Cardinality(DOMAIN prog.heap[prog.zms[1].val].objs[
                            prog.heap[prog.zms[1].val].data[a]].decs) > 2

\* C13 (SpecBasis): for every orbit the sweep of find_T_invariant_set ends
\* back at the leader, and decs[d] lists, each once, exactly the positions
\* (row, col) of [0, Ny) x [0, Nx) for which translate_y applied row times
\* and translate_x applied col times to lead gives d: the orbit records
\* each of the Nx*Ny positions once, (0, 0) belongs to lead, and all its
\* states have the same number of positions.
C13_SweepRecordsPositions ==
    \A c \in DOMAIN prog.zms :
        LET Nx == prog.zms[c].key[1]
            Ny == prog.zms[c].key[2]
            set == prog.heap[prog.zms[c].val]
            grid == (0..(Ny - 1)) \X (0..(Nx - 1))
            sieve == [dec \in 0..(2^(Nx * Ny) - 1) |-> 1]
        IN  \A i \in 1..Len(set.objs) :
                LET lead == set.objs[i].lead
                    decs == set.objs[i].decs
                IN  /\ find_T_invariant_set(lead, sieve, Nx, Ny).new_dec = lead
                    /\ \A d \in DOMAIN decs :
                        /\ {decs[d][t] : t \in 1..Len(decs[d])}
                               = {pos \in grid :
                                      translations(lead, pos[1], pos[2], Nx, Ny) = d}
                        /\ Cardinality({decs[d][t] : t \in 1..Len(decs[d])}) = Len(decs[d])
                        /\ Len(decs[d]) = Len(decs[lead])
                    /\ SumFn([d \in DOMAIN decs |-> Len(decs[d])]) = Nx * Ny
                    /\ decs[lead][1] = <<0, 0>>

\* zero_momentum_states(2, 2) has built an orbit of two product states, each
\* reached at two positions of the grid
C13_Witness ==
    /\ prog.zms # <<>>
    /\ prog.zms[1].key = <<2, 2>>
    /\ \E i \in 1..Len(prog.heap[prog.zms[1].val].objs) :
            /\ Cardinality(DOMAIN prog.heap[prog.zms[1].val].objs[i].decs) = 2
            /\ \A d \in DOMAIN prog.heap[prog.zms[1].val].objs[i].decs :
                    Len(prog.heap[prog.zms[1].val].objs[i].decs[d]) = 2

\* C14 (SpecElems): for a sector and a product state dec,
\* _find_leading_state raises NotFoundError exactly when the orbit that
\* holds dec is not in the reduced basis of the sector; otherwise it returns
\* that orbit, the phase sum over the recorded positions of dec is not
\* zero, and the phase returned has modulus 1.
C14_NotFoundIffSilenced ==
    call.fn = "_find_leading_state" =>
        LET Nx == call.K[1]
            Ny == call.K[2]
            dec == call.i
            set == prog.heap[prog.bloch[1].val]
            owner == CHOOSE j \in 1..Len(set.objs) : dec \in DOMAIN set.objs[j].decs
            basis == gen_ind_dec_conv_dicts(prog, Nx, Ny, call.K[3], call.K[4]).val.ind_to_dec
            phase == call.val.phase
        IN  /\ call.exc \in {"", "NotFoundError"}
            /\ call.exc = "NotFoundError"
                    <=> ~\E ind \in DOMAIN basis : basis[ind] = <<prog.bloch[1].val, owner>>
            /\ call.exc = "" =>
                /\ call.val.st = <<prog.bloch[1].val, owner>>
                /\ ~CIsZero(phase_sum(set.objs[owner].decs[dec],
                                      Nx, Ny, call.K[3], call.K[4]))
                /\ Cardinality(DOMAIN phase.parts) = 1
                /\ \A q \in DOMAIN phase.parts :
                        /\ q > 0
                        /\ CIsInt(CMul(NPart(phase, q), CConj(NPart(phase, q))))
                        /\ q * CInt(CMul(NPart(phase, q), CConj(NPart(phase, q))))
                               = phase.den * phase.den

\* _find_leading_state has returned the orbit of a product state of the
\* 2 x 2 lattice other than its lead, with a phase other than 1, in a sector
\* that lacks some orbits
C14_Witness ==
    /\ call.fn = "_find_leading_state" /\ call.exc = ""
    /\ call.K[1] = 2 /\ call.K[2] = 2
    /\ deref(prog, call.val.st).lead # call.i
    /\ call.val.phase # NRat(RootOrder(2, 2), 1, 1)
    /\ prog.heap[prog.bloch[1].val].nonzero < Len(prog.heap[prog.bloch[1].val].objs)

\* C15 (SpecElems): for a basis index i and a range l, H_pm_elements makes
\* one contribution for each range-l bond whose two sites are antiparallel
\* in the leader and none for a parallel bond; the target is the leader with
\* exactly the two bits of the bond flipped; the contributions that reach
\* the same index j are summed, each phase * (norm_j / norm_i); a target
\* whose orbit the sector silences contributes nothing.
C15_ExchangeContributions ==
    (call.fn = "H_pm_elements" /\ call.exc = "") =>
        LET Nx == call.K[1]
            Ny == call.K[2]
            norms == norm_coeff_of[<<Nx, Ny>>][<<call.K[3], call.K[4]>>]
            dicts == prog.gen[1].val
            set == prog.heap[prog.zms[1].val]
            orig == dicts.ind_to_dec[call.i][2]
            lead == set.objs[orig].lead
            bit(site) == 2^lattice_index(site, Nx)
            flip(dec, s) == IF bit_set(dec, s) THEN dec - s ELSE dec + s
            anti == {b \in generate_bonds(Nx, Ny, call.l) :
                        bit_set(lead, bit(b[1])) # bit_set(lead, bit(b[2]))}
            target(b) == flip(flip(lead, bit(b[1])), bit(b[2]))
            owner(b) == set.hashtable[target(b)]
            live == {b \in anti : norms[owner(b)] > 0}
            index(b) == dicts.dec_to_ind[set.objs[owner(b)].lead]
            sum(b) == CConj(phase_sum(set.objs[owner(b)].decs[target(b)],
                                      Nx, Ny, call.K[3], call.K[4]))
            contribution(b) ==
                NMulSqrt(NMulSqrt(NFromC(sum(b)), 1, CInt(CMul(sum(b), CConj(sum(b))))),
                         norms[owner(b)], norms[orig])
        IN  /\ \A b \in anti :
                    Cardinality({s \in 0..(Nx * Ny - 1) : bit_set(target(b), 2^s)})
                        = Cardinality({s \in 0..(Nx * Ny - 1) : bit_set(lead, 2^s)})
            /\ DOMAIN call.val = {index(b) : b \in live}
            /\ \A j \in DOMAIN call.val :
                    call.val[j] = NSumFn(RootOrder(Nx, Ny),
                                         [b \in {c \in live : index(c) = j} |->
                                             contribution(b)])

\* H_pm_elements has returned a row on a lattice of four sites in which a
\* bond reaches an index other than i, the antiparallel bonds outnumber the
\* indices reached, and a parallel bond is passed over
C15_Witness ==
    /\ call.fn = "H_pm_elements" /\ call.exc = ""
    /\ call.K[1] * call.K[2] = 4
    /\ \E j \in DOMAIN call.val : j # call.i /\ call.val[j] # NZero(RootOrder(call.K[1], call.K[2]))
    /\ LET lead == deref(prog, prog.gen[1].val.ind_to_dec[call.i]).lead
           bonds == generate_bonds(call.K[1], call.K[2], call.l)
           anti == {b \in bonds :
                       bit_set(lead, 2^lattice_index(b[1], call.K[1]))
                           # bit_set(lead, 2^lattice_index(b[2], call.K[1]))}
       IN  /\ Cardinality(anti) > Cardinality(DOMAIN call.val)
           /\ anti # bonds

\* C16 (SpecElems): for a basis index i, H_pmz_elements attempts exactly
\* two contributions for each bond (a, b): one takes +0.5 or -0.5 from the
\* spin at a (up or down) and flips the bit at b, the other takes the sign
\* from b and flips the bit at a; each target differs from the leader in
\* exactly one bit; the factor is conj(gamma) when the flipped spin was up
\* and -gamma when it was down; gamma is the same for both orderings of the
\* bond.
C16_MixedContributions ==
    (call.fn = "H_pmz_elements" /\ call.exc = "") =>
        LET Nx == call.K[1]
            Ny == call.K[2]
            norms == norm_coeff_of[<<Nx, Ny>>][<<call.K[3], call.K[4]>>]
            dicts == prog.gen[1].val
            set == prog.heap[prog.zms[1].val]
            orig == dicts.ind_to_dec[call.i][2]
            lead == set.objs[orig].lead
            bit(site) == 2^lattice_index(site, Nx)
            \* <<site of the sign, site of the flip>>
            attempts == UNION {{<<b[1], b[2]>>, <<b[2], b[1]>>} :
                                  b \in generate_bonds(Nx, Ny, call.l)}
            up(site) == bit_set(lead, bit(site))
            target(t) == IF up(t[2]) THEN lead - bit(t[2]) ELSE lead + bit(t[2])
            owner(t) == set.hashtable[target(t)]
            live == {t \in attempts : norms[owner(t)] > 0}
            index(t) == dicts.dec_to_ind[set.objs[owner(t)].lead]
            g(t) == gamma(Nx, Ny, bit(t[1]), bit(t[2]))
            sum(t) == CConj(phase_sum(set.objs[owner(t)].decs[target(t)],
                                      Nx, Ny, call.K[3], call.K[4]))
            coeff_phase(t) ==
                NMulSqrt(NMulSqrt(NFromC(sum(t)), 1, CInt(CMul(sum(t), CConj(sum(t))))),
                         norms[owner(t)], norms[orig])
            \* z_contrib * conj(gamma), or z_contrib * -gamma
            contribution(t) ==
                IF up(t[2])
                THEN NScale(NRot(coeff_phase(t), 0 - g(t)), IF up(t[1]) THEN 1 ELSE -1, 2)
                ELSE NScale(NRot(coeff_phase(t), g(t)), IF up(t[1]) THEN -1 ELSE 1, 2)
        IN  /\ Cardinality(attempts) = 2 * Cardinality(generate_bonds(Nx, Ny, call.l))
            /\ \A t \in attempts :
                    /\ g(t) # None
                    /\ g(t) = gamma(Nx, Ny, bit(t[2]), bit(t[1]))
                    /\ Cardinality({s \in 0..(Nx * Ny - 1) :
                            bit_set(target(t), 2^s) # bit_set(lead, 2^s)}) = 1
            /\ DOMAIN call.val = {index(t) : t \in live}
            /\ \A j \in DOMAIN call.val :
                    call.val[j] = NSumFn(RootOrder(Nx, Ny),
                                         [t \in {u \in live : index(u) = j} |->
                                             contribution(t)])

\* H_pmz_elements has returned a row of the 2 x 2 lattice with an entry
\* that is not zero, from bonds of which one has a gamma other than 1
C16_Witness ==
    /\ call.fn = "H_pmz_elements" /\ call.exc = ""
    /\ call.K[1] = 2 /\ call.K[2] = 2
    /\ \E j \in DOMAIN call.val : call.val[j] # NZero(RootOrder(2, 2))
    /\ \E b \in generate_bonds(2, 2, 1) :
            gamma(2, 2, 2^lattice_index(b[1], 2), 2^lattice_index(b[2], 2)) # 0

\* C17 (SpecCouplings): hamiltonian_consv_k and hamiltonian_dp build the
\* second (third) neighbour terms, and divide J_z by J_pm, only when J2 (J3)
\* is not zero: with J2 = 0 and J3 = 0 a call with J_pm = 0 returns a
\* matrix; with J_pm = 0 and J2 or J3 not zero the call fails with
\* ZeroDivisionError and returns no matrix.
C17_DivisionOnlyWithFurtherNeighbors ==
    /\ [](call.fn \in {"hamiltonian_consv_k", "hamiltonian_dp"} =>
            /\ (call.J.J2 = 0 /\ call.J.J3 = 0) => call.exc = ""
            /\ call.J.J_pm # 0 => call.exc = ""
            /\ (call.J.J_pm = 0 /\ (call.J.J2 # 0 \/ call.J.J3 # 0)) =>
                    call.exc = "ZeroDivisionError"
            /\ (call.fn = "hamiltonian_consv_k" /\ call.exc # "") => call.val.n = 0
            /\ call.fn = "hamiltonian_dp" =>
                /\ call.exc # "" => DOMAIN call.val = {}
                /\ call.exc = "" =>
                    /\ {"H_pm1", "H_z1", "H_ppmm", "H_pmz"} \subseteq DOMAIN call.val
                    /\ {"H_pm2", "H_z2"} \subseteq DOMAIN call.val <=> call.J.J2 # 0
                    /\ {"H_pm3", "H_z3"} \subseteq DOMAIN call.val <=> call.J.J3 # 0
                    /\ \A c \in DOMAIN call.val : call.val[c][2] # 0)
    \* the matrices a call of hamiltonian_consv_k has built are those it
    \* added to the cache of the matrix functions
    /\ [][call'.fn = "hamiltonian_consv_k" =>
            \A key \in DOMAIN prog'.matcache \ DOMAIN prog.matcache :
                /\ key[3] = 2 => call'.J.J2 # 0
                /\ key[3] = 3 => call'.J.J3 # 0]_vars

\* hamiltonian_consv_k has returned a matrix for J_pm = 0 without further
\* neighbours, on the 2 x 2 lattice
C17_Witness ==
    /\ call.fn = "hamiltonian_consv_k" /\ call.exc = ""
    /\ call.K[1] = 2 /\ call.K[2] = 2
    /\ call.J.J_pm = 0 /\ call.J.J2 = 0 /\ call.J.J3 = 0
    /\ call.val.n > 0

\* C18 (SpecSites): on a periodic Nx x Ny lattice each directional hop (a1,
\* a2, a3, b1, b2, b3) with a stride raises SameSite exactly when the site
\* the hop leads to is the site it starts from, and returns that site
\* otherwise; the bond sets of _generate_bonds hold no bond of a site with
\* itself and lack the bond of a direction only when it is such a bond.
C18_SameSiteIffSelfBond ==
    LET Nx == call.K[1]
        Ny == call.K[2]
        \* the displacement of a hop of stride s, in steps of x and of y
        step(func, s) == CASE func = "a1" -> <<s, 0>>
                           [] func = "a2" -> <<0 - s, s>>
                           [] func = "a3" -> <<0, 0 - s>>
                           [] func = "b1" -> <<s, s>>
                           [] func = "b2" -> <<0 - 2 * s, s>>
                           [] func = "b3" -> <<s, 0 - 2 * s>>
        target(func, v, s) == <<(v[1] + step(func, s)[1]) % Nx,
                                (v[2] + step(func, s)[2]) % Ny>>
        funcs(l) == IF l = 2 THEN {"b1", "b2", "b3"} ELSE {"a1", "a2", "a3"}
        stride(l) == IF l = 3 THEN 2 ELSE 1
    IN  /\ call.fn \in HopFuncs =>
            LET v == <<call.K[3], call.K[4]>>
            IN  /\ call.exc = "SameSite" <=> target(call.fn, v, call.i) = v
                /\ call.exc = "" => call.val = target(call.fn, v, call.i)
        /\ call.fn = "_generate_bonds" =>
            \A l \in 1..3 :
                /\ \A b \in call.val[l] : b[1] # b[2]
                /\ {{b[1], b[2]} : b \in call.val[l]}
                       = {{v, target(func, v, stride(l))} :
                             v \in Sites(Nx, Ny), func \in funcs(l)}
                         \ {{v} : v \in Sites(Nx, Ny)}

\* C19 (SpecSites): on a lattice periodic in x only, yhop(stride) of a
\* SemiPeriodicBCSiteVector at (x, y) raises OutOfBoundsError exactly when
\* y + stride is outside [0, Ny) and otherwise returns (x, y + stride);
\* neighboring_sites raises nothing and returns exactly the neighbours whose
\* y stays inside the lattice.
C19_OutOfBoundsIffOffLattice ==
    LET Nx == call.K[1]
        Ny == call.K[2]
        x == call.K[3]
        y == call.K[4]
        inside(site) == site[2] \in 0..(Ny - 1)
        round(d) == << <<(x + d) % Nx, y>>, <<x, y + d>>, <<(x + d) % Nx, y - d>> >>
        index(site) == site[1] + Nx * site[2]
    IN  /\ call.fn = "yhop" =>
            /\ call.exc = "OutOfBoundsError" <=> (y + call.i) \notin 0..(Ny - 1)
            /\ call.exc = "" => call.val = <<x, y + call.i>>
        /\ call.fn = "neighboring_sites" =>
            /\ call.exc = ""
            /\ call.val = [k \in 1..Len(SelectSeq(round(1) \o round(-1), inside)) |->
                              index(SelectSeq(round(1) \o round(-1), inside)[k])]

\* C20 (SpecShared): the orbits are shared between the sectors and
\* _bloch_states overwrites their norm in place, yet after any sequence of
\* calls over different sectors of one lattice an element function for
\* sector (kx, ky) reads, for norm_j / norm_i, the norms of sector (kx, ky),
\* also when a cache answers: what an element function or a matrix function
\* returns is what it returns in a process that made no earlier call.
C20_NormsOfTheSector ==
    /\ call.fn \in {"H_pm_elements", "H_ppmm_elements", "H_pmz_elements"} =>
        \E r \in {offdiag_elements(call.fn, EmptyProgram, call.K, call.i, call.l)} :
            call.exc = r.exc /\ call.val = r.val
    /\ call.fn = "H_z_elements" =>
        \E r \in {H_z_elements(EmptyProgram, call.K, call.i, call.l)} :
            call.exc = r.exc /\ call.val = r.val
    /\ call.fn \in {"H_z_matrix", "H_pmz_matrix"} =>
        \E r \in {matrix_function(call.fn, EmptyProgram, call.K, call.l)} :
            call.exc = r.exc /\ call.val = r.val

=============================================================================
